---------------------------- MODULE Spec2Model ----------------------------
(***************************************************************************)
(* Upstream identity provider reconciliation of the Pinniped supervisor:   *)
(* the OIDC and GitHub upstream watchers (Sync, validateUpstream,          *)
(* updateStatus), the condition merge of conditionsutil, the discovery     *)
(* validator cache and the published provider cache.                       *)
(***************************************************************************)
EXTENDS Integers, Sequences, FiniteSets, TLC

(***************************************************************************)
(* Bounds of the model.                                                    *)
(***************************************************************************)
\* The clock runs from 0 to MaxClock ticks.
MaxClock == 1
\* One clock tick stands for this many minutes.
MinutesPerTick == 5
\* Each watcher runs at most MaxPasses passes.
MaxPasses == 2
\* At most MaxPuts direct calls of putProvider are made.
MaxPuts == 2
\* A condition list handed to a direct call of the merge has at most
\* MaxConditions entries.
MaxConditions == 2
\* The longest list of additional authorize parameters of a provider.
MaxParams == 2
\* The longest list of additional scopes of a provider.
MaxScopes == 3
\* How often the CA bundle resources are overwritten.
MaxBundleEdits == 3
\* A request parameter has at most MaxValues values.
MaxValues == 2

(***************************************************************************)
(* Constants of the program.                                               *)
(***************************************************************************)
\* oidc_upstream_watcher.go:54  oidcValidatorCacheTTL = 15 * time.Minute
oidcValidatorCacheTTL == 15 \div MinutesPerTick

typeClientCredentialsSecretValid == "ClientCredentialsSecretValid"
typeAdditionalAuthorizeParametersValid == "AdditionalAuthorizeParametersValid"
typeOIDCDiscoverySucceeded == "OIDCDiscoverySucceeded"

reasonUnreachable == "Unreachable"
reasonInvalidResponse == "InvalidResponse"
reasonDisallowedParameterName == "DisallowedParameterName"
ReasonSuccess == "Success"
ReasonNotFound == "SecretNotFound"
ReasonWrongType == "SecretWrongType"
ReasonMissingKeys == "SecretMissingKeys"
ReasonInvalidTLSConfig == "InvalidTLSConfig"

ConditionTrue == "True"
ConditionFalse == "False"
ConditionUnknown == "Unknown"

PhasePending == "Pending"
PhaseReady == "Ready"
PhaseError == "Error"

\* The read-only denylist of additional authorize parameter names.
disallowedAdditionalAuthorizeParameters ==
    { "response_type", "scope", "client_id", "state", "nonce",
      "code_challenge", "code_challenge_method", "redirect_uri", "hd" }

\* The values Sync hands back to the scheduler.
RetNil == "nil"
ErrSyntheticRequeue == "ErrSyntheticRequeue"
ErrListFailed == "failed to list"

(***************************************************************************)
(* Conditions and their merge (conditionsutil).                            *)
(***************************************************************************)
\* Go compares condition Types as strings; TypeOrder lists the Types of the
\* model in ascending string order.
TypeOrder ==
    << typeAdditionalAuthorizeParametersValid,
       typeClientCredentialsSecretValid,
       typeOIDCDiscoverySucceeded >>

TypeRank(t) == CHOOSE i \in 1..Len(TypeOrder) : TypeOrder[i] = t

\* (*conditionsToUpdate)[i].Type < (*conditionsToUpdate)[j].Type
TypeLess(a, b) == TypeRank(a) < TypeRank(b)

\* A condition as a validator returns it: generation and transition time
\* are still zero.
Condition(type, status, reason, message) ==
    [ Type |-> type, Status |-> status, Reason |-> reason, Message |-> message,
      ObservedGeneration |-> 0, LastTransitionTime |-> 0 ]

\* The index of the last entry of existing with the Type, 0 when there is
\* none (the loop of mergeIDPCondition does not stop at the first match).
FindOld(existing, type) ==
    LET hits == { i \in 1..Len(existing) : existing[i].Type = type }
    IN  IF hits = {} THEN 0 ELSE CHOOSE i \in hits : \A j \in hits : j <= i

\* The transition time differs from the stored one only when the Status
\* differs: the mutant stamps the new time on every merge.
mergeIDPCondition_AlwaysNewTime(existing, new) ==
    LET i == FindOld(existing, new.Type)
    IN  IF i = 0
        THEN [ conds |-> Append(existing, new), changed |-> TRUE ]
        ELSE IF existing[i] # new
             THEN [ conds |-> [ existing EXCEPT ![i] = new ], changed |-> TRUE ]
             ELSE [ conds |-> existing, changed |-> FALSE ]

\* The mutant carries the stored time forward whatever the Status.
mergeIDPCondition_KeepTimeAlways(existing, new) ==
    LET i == FindOld(existing, new.Type)
    IN  IF i = 0
        THEN [ conds |-> Append(existing, new), changed |-> TRUE ]
        ELSE LET old  == existing[i]
                 new2 == [ new EXCEPT !.LastTransitionTime = old.LastTransitionTime ]
             IN  IF old # new2
                 THEN [ conds |-> [ existing EXCEPT ![i] = new2 ], changed |-> TRUE ]
                 ELSE [ conds |-> existing, changed |-> FALSE ]

\* The mutant appends the condition whether or not the Type is stored.
mergeIDPCondition_AlwaysAppend(existing, new) ==
    [ conds |-> Append(existing, new), changed |-> TRUE ]

\* The mutant compares the entries without their ObservedGeneration.
mergeIDPCondition_IgnoreGeneration(existing, new) ==
    LET i == FindOld(existing, new.Type)
    IN  IF i = 0
        THEN [ conds |-> Append(existing, new), changed |-> TRUE ]
        ELSE LET old  == existing[i]
                 new2 == IF old.Status = new.Status
                         THEN [ new EXCEPT !.LastTransitionTime = old.LastTransitionTime ]
                         ELSE new
             IN  IF [ old EXCEPT !.ObservedGeneration = 0 ]
                        # [ new2 EXCEPT !.ObservedGeneration = 0 ]
                 THEN [ conds |-> [ existing EXCEPT ![i] = new2 ], changed |-> TRUE ]
                 ELSE [ conds |-> existing, changed |-> FALSE ]

mergeIDPCondition(existing, new) ==
    LET i == FindOld(existing, new.Type)
    IN  IF i = 0
        THEN [ conds |-> Append(existing, new), changed |-> TRUE ]
        ELSE LET old  == existing[i]
                 new2 == IF old.Status = new.Status
                         THEN [ new EXCEPT !.LastTransitionTime = old.LastTransitionTime ]
                         ELSE new
             IN  IF old # new2
                 THEN [ conds |-> [ existing EXCEPT ![i] = new2 ], changed |-> TRUE ]
                 ELSE [ conds |-> existing, changed |-> FALSE ]

\* sort.SliceStable by Type: a stable insertion sort.
RECURSIVE InsertByType(_, _)
InsertByType(sorted, c) ==
    IF sorted = <<>> THEN << c >>
    ELSE IF TypeLess(c.Type, Head(sorted).Type)
         THEN << c >> \o sorted
         ELSE << Head(sorted) >> \o InsertByType(Tail(sorted), c)

RECURSIVE SortByType(_)
SortByType(conds) ==
    IF conds = <<>> THEN <<>>
    ELSE InsertByType(SortByType(SubSeq(conds, 1, Len(conds) - 1)), conds[Len(conds)])

RECURSIVE MergeLoop(_, _, _, _)
MergeLoop(conditions, observedGeneration, existing, now) ==
    IF conditions = <<>> THEN existing
    ELSE LET cond == [ Head(conditions) EXCEPT
                         !.LastTransitionTime = now,
                         !.ObservedGeneration = observedGeneration ]
         IN  MergeLoop(Tail(conditions), observedGeneration,
                       mergeIDPCondition(existing, cond).conds, now)

\* Whether a call of mergeIDPCondition in the loop returns true (the
\* "updated condition" log line is written).
RECURSIVE MergeLoopChanged(_, _, _, _)
MergeLoopChanged(conditions, observedGeneration, existing, now) ==
    IF conditions = <<>> THEN FALSE
    ELSE LET cond == [ Head(conditions) EXCEPT
                         !.LastTransitionTime = now,
                         !.ObservedGeneration = observedGeneration ]
             m == mergeIDPCondition(existing, cond)
         IN  m.changed \/ MergeLoopChanged(Tail(conditions), observedGeneration,
                                           m.conds, now)

\* The mutant reports a False found in the merged list.
MergeIDPConditions_ErrorFromResult(conditions, observedGeneration, conditionsToUpdate, now) ==
    LET merged == SortByType(MergeLoop(conditions, observedGeneration,
                                       conditionsToUpdate, now))
    IN  [ conds |-> merged,
          hadErrorCondition |->
              \E i \in 1..Len(merged) : merged[i].Status = ConditionFalse ]

\* The mutant returns before the sort when nothing is merged.
MergeIDPConditions_SkipSortWhenEmpty(conditions, observedGeneration, conditionsToUpdate, now) ==
    IF conditions = <<>>
    THEN [ conds |-> conditionsToUpdate, hadErrorCondition |-> FALSE ]
    ELSE [ conds |-> SortByType(MergeLoop(conditions, observedGeneration,
                                          conditionsToUpdate, now)),
           hadErrorCondition |->
               \E i \in 1..Len(conditions) : conditions[i].Status = ConditionFalse ]

\* The mutant leaves the merged list unsorted.
MergeIDPConditions_NoSort(conditions, observedGeneration, conditionsToUpdate, now) ==
    [ conds |-> MergeLoop(conditions, observedGeneration, conditionsToUpdate, now),
      hadErrorCondition |->
          \E i \in 1..Len(conditions) : conditions[i].Status = ConditionFalse ]

\* The mutant stamps the generation on every entry of the merged list.
MergeIDPConditions_StampAll(conditions, observedGeneration, conditionsToUpdate, now) ==
    LET merged == SortByType(MergeLoop(conditions, observedGeneration,
                                       conditionsToUpdate, now))
    IN  [ conds |-> [ i \in 1..Len(merged) |->
                        [ merged[i] EXCEPT !.ObservedGeneration = observedGeneration ] ],
          hadErrorCondition |->
              \E i \in 1..Len(conditions) : conditions[i].Status = ConditionFalse ]

\* MergeIDPConditions: merges conditions into conditionsToUpdate, sorts the
\* list and reports whether an incoming condition has Status False.
MergeIDPConditions(conditions, observedGeneration, conditionsToUpdate, now) ==
    [ conds |-> SortByType(MergeLoop(conditions, observedGeneration, conditionsToUpdate, now)),
      hadErrorCondition |->
          \E i \in 1..Len(conditions) : conditions[i].Status = ConditionFalse ]


(***************************************************************************)
(* The strings of the model and what the library calls make of them.       *)
(***************************************************************************)
IssuerGood == "https://idp.example.com"
IssuerHTTP == "http://idp.example.com"
IssuerBadAuth == "https://badauth.example.com"
IssuerBadToken == "https://badtoken.example.com"
Issuers == { IssuerGood, IssuerHTTP, IssuerBadAuth, IssuerBadToken }

\* url.Parse: the scheme, the raw query, the query keys that Query() keeps
\* (a pair that does not unescape is dropped) and the fragment of each URL
\* string of the model (err: the string does not parse).
ParsedURL(scheme, rawQuery, query, fragment) ==
    [ err |-> FALSE, Scheme |-> scheme, RawQuery |-> rawQuery, Query |-> query,
      Fragment |-> fragment ]

ParseURL(u) ==
    CASE u \in { "https://idp.example.com", "https://badauth.example.com",
                 "https://badtoken.example.com",
                 "https://idp.example.com/authorize", "https://idp.example.com/token",
                 "https://idp.example.com/revoke", "https://example.com",
                 "https://localhost" } -> ParsedURL("https", "", {}, "")
      [] u \in { "http://idp.example.com", "http://badauth.example.com/authorize",
                 "http://example.com", "http://localhost" } ->
             ParsedURL("http", "", {}, "")
      [] u \in { "https://badauth.example.com/token?x=1", "https://example.com?x=1" } ->
             ParsedURL("https", "x=1", { "x" }, "")
      [] u = "https://example.com#top" -> ParsedURL("https", "", {}, "top")
      [] u = "https://example.com?%zz=1" -> ParsedURL("https", "%zz=1", {}, "")
      [] u = "/authorize" -> ParsedURL("", "", {}, "")
      [] OTHER ->
             [ err |-> TRUE, Scheme |-> "", RawQuery |-> "", Query |-> {},
               Fragment |-> "" ]

\* The CA bundle strings of the model.
CAGood == "LS0tLS1CRUdJTiBDRVJUSUZJQ0FURS0tLS0t"
CANotBase64 == "this is not base64!"
CANoCerts == "aGVsbG8="
\* CAGood followed by a line break, which the decoder skips.
CAGoodNL == "LS0tLS1CRUdJTiBDRVJUSUZJQ0FURS0tLS0t\n"
CADatas == { "", CAGood, CAGoodNL, CANotBase64, CANoCerts }
\* The bundle of another CA (the start of caBundleSomePivotalCA), and what
\* it and CAGood decode to.
caBundleSomePivotalCA == "LS0tLS1CRUdJTiBDRVJUSUZJQ0FURS0tLS0tCk1JSURVVENDQWptZ0F3SUJBZ0lW"
PEMGood == "-----BEGIN CERTIFICATE-----"
PEMSomePivotalCA == "-----BEGIN CERTIFICATE-----\nMIIDUTCCAjmgAwIBAgIV"

\* base64.StdEncoding.DecodeString
DecodeBase64(s) ==
    CASE s = CAGood -> [ err |-> FALSE, bytes |-> "-----BEGIN CERTIFICATE-----" ]
      [] s = CAGoodNL -> [ err |-> FALSE, bytes |-> "-----BEGIN CERTIFICATE-----" ]
      [] s = CANoCerts -> [ err |-> FALSE, bytes |-> "hello" ]
      [] s = caBundleSomePivotalCA -> [ err |-> FALSE, bytes |-> PEMSomePivotalCA ]
      [] s = "" -> [ err |-> FALSE, bytes |-> "" ]
      [] OTHER -> [ err |-> TRUE, bytes |-> "" ]

\* rootCAs.AppendCertsFromPEM: whether the bytes hold a certificate.
AppendCertsFromPEM(bytes) == bytes \in { PEMGood, PEMSomePivotalCA }

\* The discovery document each issuer serves (issuer "" : none).
NoDoc == [ Issuer |-> "", AuthURL |-> "", TokenURL |-> "", RevocationEndpoint |-> "" ]

DiscoveryDoc(issuer) ==
    CASE issuer = IssuerGood ->
             [ Issuer |-> issuer,
               AuthURL |-> "https://idp.example.com/authorize",
               TokenURL |-> "https://idp.example.com/token",
               RevocationEndpoint |-> "https://idp.example.com/revoke" ]
      [] issuer = IssuerBadAuth ->
             [ Issuer |-> issuer,
               AuthURL |-> "http://badauth.example.com/authorize",
               TokenURL |-> "https://badauth.example.com/token?x=1",
               RevocationEndpoint |-> "" ]
      [] issuer = IssuerBadToken ->
             [ Issuer |-> issuer,
               AuthURL |-> "https://idp.example.com/authorize",
               TokenURL |-> "https://badauth.example.com/token?x=1",
               RevocationEndpoint |-> "https://idp.example.com/revoke" ]
      [] OTHER -> NoDoc

(***************************************************************************)
(* The discovery validator cache (lruValidatorCache over cache.Expiring).  *)
(***************************************************************************)
NoTLS == [ present |-> FALSE, CertificateAuthorityData |-> "" ]
TLSWith(ca) == [ present |-> TRUE, CertificateAuthorityData |-> ca ]

\* The mutant keys the cache by the decoded bundle.
cacheKey_DecodedBundle(spec) ==
    [ issuer |-> spec.Issuer,
      caBundle |-> IF spec.TLS.present
                   THEN LET d == DecodeBase64(spec.TLS.CertificateAuthorityData)
                        IN  IF d.err THEN spec.TLS.CertificateAuthorityData
                            ELSE IF d.bytes = "-----BEGIN CERTIFICATE-----" THEN CAGood
                            ELSE spec.TLS.CertificateAuthorityData
                   ELSE "" ]

cacheKey(spec) ==
    [ issuer |-> spec.Issuer,
      caBundle |-> IF spec.TLS.present THEN spec.TLS.CertificateAuthorityData ELSE "" ]

CacheKeys == [ issuer : Issuers, caBundle : CADatas ]

NoEntry == [ present |-> FALSE, provider |-> NoDoc, client |-> "", expiry |-> 0 ]

\* cache.Expiring.Get answers only while now is before the expiry. The
\* mutant still answers at the expiry.
getProvider_HitAtExpiry(cache, spec, now) ==
    LET e == cache[cacheKey(spec)]
    IN  IF e.present /\ now <= e.expiry THEN e ELSE NoEntry

getProvider(cache, spec, now) ==
    LET e == cache[cacheKey(spec)]
    IN  IF e.present /\ now < e.expiry THEN e ELSE NoEntry

\* cache.Expiring.Set stores the entry and drops the expired ones. The
\* mutant writes the provider into an entry it finds and leaves the client.
putProvider_KeepOldClient(cache, spec, provider, client, now) ==
    [ k \in CacheKeys |->
        IF k = cacheKey(spec)
        THEN [ present |-> TRUE, provider |-> provider,
               client |-> IF cache[k].present THEN cache[k].client ELSE client,
               expiry |-> now + oidcValidatorCacheTTL ]
        ELSE IF cache[k].present /\ cache[k].expiry <= now THEN NoEntry ELSE cache[k] ]

putProvider(cache, spec, provider, client, now) ==
    [ k \in CacheKeys |->
        IF k = cacheKey(spec)
        THEN [ present |-> TRUE, provider |-> provider, client |-> client,
               expiry |-> now + oidcValidatorCacheTTL ]
        ELSE IF cache[k].present /\ cache[k].expiry <= now THEN NoEntry ELSE cache[k] ]


(***************************************************************************)
(* The OIDC validator (oidcWatcherController.validateUpstream).             *)
(***************************************************************************)
oidcClientSecretType == "secrets.pinniped.dev/oidc-client"

\* What the secret lister holds under a provider's secret name.
SecretAbsent == [ present |-> FALSE, Type |-> "", clientID |-> "", clientSecret |-> "" ]
SecretOK ==
    [ present |-> TRUE, Type |-> oidcClientSecretType,
      clientID |-> "some-client-id", clientSecret |-> "some-client-secret" ]
SecretWrongType ==
    [ present |-> TRUE, Type |-> "Opaque",
      clientID |-> "some-client-id", clientSecret |-> "some-client-secret" ]
SecretMissingKeys ==
    [ present |-> TRUE, Type |-> oidcClientSecretType,
      clientID |-> "some-client-id", clientSecret |-> "" ]

\* validateSecret: the ClientCredentialsSecretValid condition, and the
\* client credentials it copies into the result on success. The mutant
\* looks at the data keys before the type.
validateSecret_KeysBeforeType(secret) ==
    IF ~secret.present
    THEN [ cond |-> Condition(typeClientCredentialsSecretValid, ConditionFalse,
                              ReasonNotFound, << "secret not found" >>),
           ClientID |-> "", ClientSecret |-> "" ]
    ELSE IF secret.clientID = "" \/ secret.clientSecret = ""
    THEN [ cond |-> Condition(typeClientCredentialsSecretValid, ConditionFalse,
                              ReasonMissingKeys,
                              << "referenced Secret is missing required keys" >>),
           ClientID |-> "", ClientSecret |-> "" ]
    ELSE IF secret.Type # oidcClientSecretType
    THEN [ cond |-> Condition(typeClientCredentialsSecretValid, ConditionFalse,
                              ReasonWrongType,
                              << "referenced Secret has wrong type", secret.Type >>),
           ClientID |-> "", ClientSecret |-> "" ]
    ELSE [ cond |-> Condition(typeClientCredentialsSecretValid, ConditionTrue,
                              ReasonSuccess, << "loaded client credentials" >>),
           ClientID |-> secret.clientID, ClientSecret |-> secret.clientSecret ]

validateSecret(secret) ==
    IF ~secret.present
    THEN [ cond |-> Condition(typeClientCredentialsSecretValid, ConditionFalse,
                              ReasonNotFound, << "secret not found" >>),
           ClientID |-> "", ClientSecret |-> "" ]
    ELSE IF secret.Type # oidcClientSecretType
    THEN [ cond |-> Condition(typeClientCredentialsSecretValid, ConditionFalse,
                              ReasonWrongType,
                              << "referenced Secret has wrong type", secret.Type >>),
           ClientID |-> "", ClientSecret |-> "" ]
    ELSE IF secret.clientID = "" \/ secret.clientSecret = ""
    THEN [ cond |-> Condition(typeClientCredentialsSecretValid, ConditionFalse,
                              ReasonMissingKeys,
                              << "referenced Secret is missing required keys" >>),
           ClientID |-> "", ClientSecret |-> "" ]
    ELSE [ cond |-> Condition(typeClientCredentialsSecretValid, ConditionTrue,
                              ReasonSuccess, << "loaded client credentials" >>),
           ClientID |-> secret.clientID, ClientSecret |-> secret.clientSecret ]

\* getClient: the trust store of the HTTP client ("" : the system store),
\* or the error of decoding the CA bundle. The mutant falls back to the
\* system store when the bundle does not decode.
getClient_FallBackToSystemStore(spec) ==
    IF ~spec.TLS.present \/ spec.TLS.CertificateAuthorityData = ""
    THEN [ err |-> << >>, rootCAs |-> "" ]
    ELSE LET d == DecodeBase64(spec.TLS.CertificateAuthorityData)
         IN  IF d.err \/ ~AppendCertsFromPEM(d.bytes)
             THEN [ err |-> << >>, rootCAs |-> "" ]
             ELSE [ err |-> << >>, rootCAs |-> d.bytes ]

\* The mutant takes a bundle without certificates for an empty pool.
getClient_NoCertsAccepted(spec) ==
    IF ~spec.TLS.present \/ spec.TLS.CertificateAuthorityData = ""
    THEN [ err |-> << >>, rootCAs |-> "" ]
    ELSE LET d == DecodeBase64(spec.TLS.CertificateAuthorityData)
         IN  IF d.err
             THEN [ err |-> << "spec.certificateAuthorityData is invalid",
                               "illegal base64 data" >>,
                    rootCAs |-> "" ]
             ELSE [ err |-> << >>, rootCAs |-> d.bytes ]

getClient(spec) ==
    IF ~spec.TLS.present \/ spec.TLS.CertificateAuthorityData = ""
    THEN [ err |-> << >>, rootCAs |-> "" ]
    ELSE LET d == DecodeBase64(spec.TLS.CertificateAuthorityData)
         IN  IF d.err
             THEN [ err |-> << "spec.certificateAuthorityData is invalid",
                               "illegal base64 data" >>,
                    rootCAs |-> "" ]
             ELSE IF ~AppendCertsFromPEM(d.bytes)
             THEN [ err |-> << "spec.certificateAuthorityData is invalid",
                               "no certificates found" >>,
                    rootCAs |-> "" ]
             ELSE [ err |-> << >>, rootCAs |-> d.bytes ]

NoCondition == Condition("", "", "", << >>)

\* validateHTTPSURL: NoCondition when the URL is accepted.
validateHTTPSURL(maybeHTTPSURL, endpointType, reason) ==
    LET parsedURL == ParseURL(maybeHTTPSURL)
    IN  IF parsedURL.err
        THEN Condition(typeOIDCDiscoverySucceeded, ConditionFalse, reason,
                       << "failed to parse URL", endpointType >>)
        ELSE IF parsedURL.Scheme # "https"
        THEN Condition(typeOIDCDiscoverySucceeded, ConditionFalse, reason,
                       << "URL must have https scheme", endpointType,
                          maybeHTTPSURL, parsedURL.Scheme >>)
        ELSE IF parsedURL.Query # {} \/ parsedURL.Fragment # ""
        THEN Condition(typeOIDCDiscoverySucceeded, ConditionFalse, reason,
                       << "URL cannot contain query or fragment component",
                          endpointType, maybeHTTPSURL >>)
        ELSE NoCondition

\* coreosoidc.NewProvider: the discovery request is aborted when the
\* context is cancelled and fails when the network is down or the issuer
\* serves no document (err "" : the request succeeded).
errContextCanceled == "context canceled"

NewProvider(ctxCancelled, netUp, issuer) ==
    IF ctxCancelled THEN [ err |-> errContextCanceled, provider |-> NoDoc ]
    ELSE IF ~netUp THEN [ err |-> "connection refused", provider |-> NoDoc ]
    ELSE IF DiscoveryDoc(issuer) = NoDoc
    THEN [ err |-> "404 Not Found", provider |-> NoDoc ]
    ELSE [ err |-> "", provider |-> DiscoveryDoc(issuer) ]

\* The checks of validateIssuer on the discovered endpoints (hit and miss).
\* The mutant checks the token endpoint before the authorization endpoint.
validateEndpoints_TokenFirst(discoveredProvider, httpClient) ==
    LET revocation ==
            IF discoveredProvider.RevocationEndpoint # ""
            THEN validateHTTPSURL(discoveredProvider.RevocationEndpoint,
                                  "revocation endpoint", reasonInvalidResponse)
            ELSE NoCondition
        authorize == validateHTTPSURL(discoveredProvider.AuthURL,
                                      "authorization endpoint", reasonInvalidResponse)
        token == validateHTTPSURL(discoveredProvider.TokenURL,
                                  "token endpoint", reasonInvalidResponse)
        none == [ AuthURL |-> "", TokenURL |-> "", RevocationURL |-> "", Client |-> "" ]
    IN  IF revocation # NoCondition THEN [ cond |-> revocation, endpoint |-> none ]
        ELSE IF token # NoCondition
        THEN [ cond |-> token,
               endpoint |-> [ none EXCEPT !.RevocationURL =
                                  discoveredProvider.RevocationEndpoint ] ]
        ELSE IF authorize # NoCondition
        THEN [ cond |-> authorize,
               endpoint |-> [ none EXCEPT !.RevocationURL =
                                  discoveredProvider.RevocationEndpoint ] ]
        ELSE [ cond |-> Condition(typeOIDCDiscoverySucceeded, ConditionTrue,
                                  ReasonSuccess, << "discovered issuer configuration" >>),
               endpoint |-> [ AuthURL |-> discoveredProvider.AuthURL,
                              TokenURL |-> discoveredProvider.TokenURL,
                              RevocationURL |-> discoveredProvider.RevocationEndpoint,
                              Client |-> httpClient ] ]

validateEndpoints(discoveredProvider, httpClient) ==
    LET revocation ==
            IF discoveredProvider.RevocationEndpoint # ""
            THEN validateHTTPSURL(discoveredProvider.RevocationEndpoint,
                                  "revocation endpoint", reasonInvalidResponse)
            ELSE NoCondition
        authorize == validateHTTPSURL(discoveredProvider.AuthURL,
                                      "authorization endpoint", reasonInvalidResponse)
        token == validateHTTPSURL(discoveredProvider.TokenURL,
                                  "token endpoint", reasonInvalidResponse)
        none == [ AuthURL |-> "", TokenURL |-> "", RevocationURL |-> "", Client |-> "" ]
    IN  IF revocation # NoCondition THEN [ cond |-> revocation, endpoint |-> none ]
        ELSE IF authorize # NoCondition
        THEN [ cond |-> authorize,
               endpoint |-> [ none EXCEPT !.RevocationURL =
                                  discoveredProvider.RevocationEndpoint ] ]
        ELSE IF token # NoCondition
        THEN [ cond |-> token,
               endpoint |-> [ none EXCEPT !.RevocationURL =
                                  discoveredProvider.RevocationEndpoint ] ]
        ELSE [ cond |-> Condition(typeOIDCDiscoverySucceeded, ConditionTrue,
                                  ReasonSuccess, << "discovered issuer configuration" >>),
               endpoint |-> [ AuthURL |-> discoveredProvider.AuthURL,
                              TokenURL |-> discoveredProvider.TokenURL,
                              RevocationURL |-> discoveredProvider.RevocationEndpoint,
                              Client |-> httpClient ] ]

\* validateIssuer: the OIDCDiscoverySucceeded condition, the endpoints it
\* copies into the result, the validator cache it leaves and the number of
\* discovery requests it made (calls of NewProvider). The mutant stores the
\* discovered provider once its endpoints have passed.
validateIssuer_StoreWhenValid(ctxCancelled, netUp, now, cache, spec) ==
    LET hit == getProvider(cache, spec, now)
        none == [ AuthURL |-> "", TokenURL |-> "", RevocationURL |-> "", Client |-> "" ]
    IN  IF hit.present
        THEN LET v == validateEndpoints(hit.provider, hit.client)
             IN  [ cond |-> v.cond, endpoint |-> v.endpoint, cache |-> cache,
                   discoveryRequests |-> 0 ]
        ELSE LET client == getClient(spec)
                 issuerURLCondition ==
                     validateHTTPSURL(spec.Issuer, "issuer", reasonUnreachable)
                 discovery == NewProvider(ctxCancelled, netUp, spec.Issuer)
             IN  IF client.err # << >>
                 THEN [ cond |-> Condition(typeOIDCDiscoverySucceeded, ConditionFalse,
                                           ReasonInvalidTLSConfig, client.err),
                        endpoint |-> none, cache |-> cache, discoveryRequests |-> 0 ]
                 ELSE IF issuerURLCondition # NoCondition
                 THEN [ cond |-> issuerURLCondition, endpoint |-> none, cache |-> cache,
                        discoveryRequests |-> 0 ]
                 ELSE IF discovery.err # ""
                 THEN [ cond |-> Condition(typeOIDCDiscoverySucceeded, ConditionFalse,
                                           reasonUnreachable,
                                           << "failed to perform OIDC discovery against",
                                              spec.Issuer, discovery.err >>),
                        endpoint |-> none, cache |-> cache, discoveryRequests |-> 1 ]
                 ELSE LET v == validateEndpoints(discovery.provider, client.rootCAs)
                      IN  [ cond |-> v.cond, endpoint |-> v.endpoint,
                            cache |-> IF v.cond.Status = ConditionTrue
                                      THEN putProvider(cache, spec, discovery.provider,
                                                       client.rootCAs, now)
                                      ELSE cache,
                            discoveryRequests |-> 1 ]

validateIssuer(ctxCancelled, netUp, now, cache, spec) ==
    LET hit == getProvider(cache, spec, now)
        none == [ AuthURL |-> "", TokenURL |-> "", RevocationURL |-> "", Client |-> "" ]
    IN  IF hit.present
        THEN LET v == validateEndpoints(hit.provider, hit.client)
             IN  [ cond |-> v.cond, endpoint |-> v.endpoint, cache |-> cache,
                   discoveryRequests |-> 0 ]
        ELSE LET client == getClient(spec)
                 issuerURLCondition ==
                     validateHTTPSURL(spec.Issuer, "issuer", reasonUnreachable)
                 discovery == NewProvider(ctxCancelled, netUp, spec.Issuer)
             IN  IF client.err # << >>
                 THEN [ cond |-> Condition(typeOIDCDiscoverySucceeded, ConditionFalse,
                                           ReasonInvalidTLSConfig, client.err),
                        endpoint |-> none, cache |-> cache, discoveryRequests |-> 0 ]
                 ELSE IF issuerURLCondition # NoCondition
                 THEN [ cond |-> issuerURLCondition, endpoint |-> none, cache |-> cache,
                        discoveryRequests |-> 0 ]
                 ELSE IF discovery.err # ""
                 THEN [ cond |-> Condition(typeOIDCDiscoverySucceeded, ConditionFalse,
                                           reasonUnreachable,
                                           << "failed to perform OIDC discovery against",
                                              spec.Issuer, discovery.err >>),
                        endpoint |-> none, cache |-> cache, discoveryRequests |-> 1 ]
                 ELSE LET v == validateEndpoints(discovery.provider, client.rootCAs)
                      IN  [ cond |-> v.cond, endpoint |-> v.endpoint,
                            cache |-> putProvider(cache, spec, discovery.provider,
                                                  client.rootCAs, now),
                            discoveryRequests |-> 1 ]

\* The names of the additional authorize parameters that the denylist
\* rejects, in configuration order.
RECURSIVE rejectedAuthcodeAuthorizeParameters(_)
rejectedAuthcodeAuthorizeParameters(params) ==
    IF params = << >> THEN << >>
    ELSE IF Head(params) \in disallowedAdditionalAuthorizeParameters
         THEN << Head(params) >> \o rejectedAuthcodeAuthorizeParameters(Tail(params))
         ELSE rejectedAuthcodeAuthorizeParameters(Tail(params))

\* The mutant reports the first rejected name only.
validateAdditionalAuthorizeParameters_FirstRejected(params) ==
    LET rejected == rejectedAuthcodeAuthorizeParameters(params)
    IN  IF Len(rejected) > 0
        THEN Condition(typeAdditionalAuthorizeParametersValid, ConditionFalse,
                       reasonDisallowedParameterName,
                       << "the following additionalAuthorizeParameters are not allowed",
                          rejected[1] >>)
        ELSE Condition(typeAdditionalAuthorizeParametersValid, ConditionTrue,
                       ReasonSuccess,
                       << "additionalAuthorizeParameters parameter names are allowed" >>)

validateAdditionalAuthorizeParameters(params) ==
    LET rejected == rejectedAuthcodeAuthorizeParameters(params)
    IN  IF Len(rejected) > 0
        THEN Condition(typeAdditionalAuthorizeParametersValid, ConditionFalse,
                       reasonDisallowedParameterName,
                       << "the following additionalAuthorizeParameters are not allowed" >>
                           \o rejected)
        ELSE Condition(typeAdditionalAuthorizeParametersValid, ConditionTrue,
                       ReasonSuccess,
                       << "additionalAuthorizeParameters parameter names are allowed" >>)

\* The scopes of package oidcapi.
ScopeOpenID == "openid"
ScopeOfflineAccess == "offline_access"
ScopeEmail == "email"
ScopeProfile == "profile"

\* The scope strings of the model in the order sets.String.List() sorts
\* them (byte order: upper case first).
ScopeOrder ==
    << "Openid", ScopeEmail, "groups", ScopeOfflineAccess, ScopeOpenID, ScopeProfile >>

\* set.List(): the members of the set, sorted.
SortedList(set) == SelectSeq(ScopeOrder, LAMBDA x : x \in set)

\* computeScopes: the mutant leaves the mandatory scope out of the union.
computeScopes_ConfiguredOnly(additionalScopes) ==
    IF Len(additionalScopes) = 0
    THEN << ScopeOpenID, ScopeOfflineAccess, ScopeEmail, ScopeProfile >>
    ELSE SortedList({ additionalScopes[i] : i \in 1..Len(additionalScopes) })

computeScopes(additionalScopes) ==
    IF Len(additionalScopes) = 0
    THEN << ScopeOpenID, ScopeOfflineAccess, ScopeEmail, ScopeProfile >>
    ELSE SortedList({ ScopeOpenID }
                        \cup { additionalScopes[i] : i \in 1..Len(additionalScopes) })

\* The conditions of validateUpstream, in the order the code builds them,
\* with the result config and the validator cache left behind. The mutant
\* leaves the issuer alone when the secret has failed.
oidcConditions_IssuerAfterSecret(ctxCancelled, netUp, now, cache, secret, upstream) ==
    LET s == validateSecret(secret)
        i == validateIssuer(ctxCancelled, netUp, now, cache, upstream.Spec)
        p == validateAdditionalAuthorizeParameters(
                 upstream.Spec.AdditionalAuthorizeParameters)
    IN  [ conditions |-> IF s.cond.Status = ConditionFalse
                         THEN << s.cond, p >> ELSE << s.cond, i.cond, p >>,
          result |-> [ Name |-> upstream.Name,
                       ClientID |-> s.ClientID,
                       AuthURL |-> i.endpoint.AuthURL,
                       TokenURL |-> i.endpoint.TokenURL,
                       RevocationURL |-> i.endpoint.RevocationURL ],
          cache |-> IF s.cond.Status = ConditionFalse THEN cache ELSE i.cache ]

oidcConditions(ctxCancelled, netUp, now, cache, secret, upstream) ==
    LET s == validateSecret(secret)
        i == validateIssuer(ctxCancelled, netUp, now, cache, upstream.Spec)
        p == validateAdditionalAuthorizeParameters(
                 upstream.Spec.AdditionalAuthorizeParameters)
    IN  [ conditions |-> << s.cond, i.cond, p >>,
          result |-> [ Name |-> upstream.Name,
                       ClientID |-> s.ClientID,
                       AuthURL |-> i.endpoint.AuthURL,
                       TokenURL |-> i.endpoint.TokenURL,
                       RevocationURL |-> i.endpoint.RevocationURL ],
          cache |-> i.cache ]

\* The loop over the conditions at the end of validateUpstream: the mutant
\* looks at the discovery condition only.
isValid_DiscoveryOnly(conditions) ==
    \A i \in 1..Len(conditions) :
        conditions[i].Type = typeOIDCDiscoverySucceeded
            => conditions[i].Status # ConditionFalse

\* The mutant leaves the last condition of the list out of the loop.
isValid_AllButLast(conditions) ==
    \A i \in 1..(Len(conditions) - 1) : conditions[i].Status # ConditionFalse

isValid(conditions) ==
    \A i \in 1..Len(conditions) : conditions[i].Status # ConditionFalse

(***************************************************************************)
(* updateStatus of both watchers.                                          *)
(***************************************************************************)
\* The object with the conditions merged and the Phase recomputed. The
\* mutant takes the Phase from the first incoming condition alone.
mergedStatus_PhaseFromFirst(upstream, conditions, now) ==
    LET m == MergeIDPConditions(conditions, upstream.Generation,
                                upstream.Status.Conditions, now)
    IN  [ Phase |-> IF conditions # << >> /\ conditions[1].Status = ConditionFalse
                    THEN PhaseError ELSE PhaseReady,
          Conditions |-> m.conds ]

mergedStatus(upstream, conditions, now) ==
    LET m == MergeIDPConditions(conditions, upstream.Generation,
                                upstream.Status.Conditions, now)
    IN  [ Phase |-> IF m.hadErrorCondition THEN PhaseError ELSE PhaseReady,
          Conditions |-> m.conds ]

\* equality.Semantic.DeepEqual(upstream, updated) fails: an update is issued.
needsUpdate(upstream, conditions, now) ==
    mergedStatus(upstream, conditions, now) # upstream.Status


(***************************************************************************)
(* State.                                                                  *)
(***************************************************************************)
OIDCNames == { "o1", "o2", "o3" }
GitHubNames == { "g1", "g2" }
KindOIDC == "oidc"
KindGitHub == "github"
Kinds == { KindOIDC, KindGitHub }

VARIABLES
    clock,              \* metav1.Now() as last read, in ticks
    running,            \* the kinds whose watcher the driver schedules
    cancelled,          \* whether the context of the controllers is cancelled
    lister,             \* informer cache: name -> provider object, with the
                        \*   status of the last update that succeeded
    secretLister,       \* informer cache: OIDC provider name -> its secret
    validatorCache,     \* c.validatorCache of the OIDC watcher
    published,          \* the published provider cache, one list per kind
    pc,                 \* per kind: "idle", "loop" (inside Sync), "returned"
    actualUpstreams,    \* per kind: the objects the pass listed
    idx,                \* per kind: the position of the loop of Sync
    requeue,            \* per kind: the requeue flag of Sync
    validatedUpstreams, \* per kind: the list Sync has built so far
    ret,                \* per kind: what the last Sync returned
    produced,           \* per kind: the conditions validateUpstream produced
                        \*   for each object of the pass so far
    setCalls,           \* per kind: Set...IdentityProviders calls of the pass
    updateCalls,        \* per kind: names the pass issued UpdateStatus for
    completeSet,        \* per kind: the list built by the last finished loop
    passes,             \* per kind: the passes started so far
    lastCall,           \* the last direct call of a package function: its
                        \*   arguments and what it returned
    putLog,             \* the putProvider calls made directly, in order
    caBundleSources,    \* per kind (Secret, ConfigMap): the value under the
                        \*   key ca.crt of the resource holding a CA bundle
    bundleEdits,        \* how often a CA bundle resource was overwritten
    webhookAuthenticators,  \* name -> WebhookAuthenticator object
    webhookStatusWrites,    \* name -> status updates written for the object
    removed             \* the providers that were in the published set when
                        \*   their object or their secret was deleted

vars == << clock, running, cancelled, lister, secretLister, validatorCache,
           published, pc, actualUpstreams, idx, requeue, validatedUpstreams,
           ret, produced, setCalls, updateCalls, completeSet, passes,
           lastCall, putLog, caBundleSources, bundleEdits,
           webhookAuthenticators, webhookStatusWrites, removed >>

envVars == << clock, running, cancelled, secretLister >>
syncVars == << pc, actualUpstreams, idx, requeue, validatedUpstreams, ret,
               produced, setCalls, updateCalls, completeSet, passes >>

webhookVars == << caBundleSources, bundleEdits, webhookAuthenticators,
                  webhookStatusWrites >>

\* What the watchers of the identity providers never touch.
callVars == << lastCall, putLog, webhookVars, removed >>

\* No package function has been called directly.
NoCall == [ op |-> "none" ]

KindOf(n) == IF n \in OIDCNames THEN KindOIDC ELSE KindGitHub

\* The provider specs the model declares.
SpecGood ==
    [ Issuer |-> IssuerGood, TLS |-> NoTLS, AdditionalAuthorizeParameters |-> << >> ]
SpecGoodCA ==
    [ Issuer |-> IssuerGood, TLS |-> TLSWith(CAGood),
      AdditionalAuthorizeParameters |-> << "prompt" >> ]
SpecBadCA ==
    [ Issuer |-> IssuerGood, TLS |-> TLSWith(CANotBase64),
      AdditionalAuthorizeParameters |-> << >> ]
SpecNoCerts ==
    [ Issuer |-> IssuerGood, TLS |-> TLSWith(CANoCerts),
      AdditionalAuthorizeParameters |-> << >> ]
SpecHTTPIssuer ==
    [ Issuer |-> IssuerHTTP, TLS |-> NoTLS, AdditionalAuthorizeParameters |-> << >> ]
SpecBadEndpoints ==
    [ Issuer |-> IssuerBadAuth, TLS |-> NoTLS, AdditionalAuthorizeParameters |-> << >> ]
SpecBadParam ==
    [ Issuer |-> IssuerGood, TLS |-> NoTLS,
      AdditionalAuthorizeParameters |-> << "prompt", "redirect_uri" >> ]
GitHubSpec == [ Issuer |-> "", TLS |-> NoTLS, AdditionalAuthorizeParameters |-> << >> ]

InvalidCASpecs == { SpecBadCA, SpecNoCerts }

\* A freshly created object: no conditions, the default Phase.
NewStatus == [ Phase |-> PhasePending, Conditions |-> << >> ]

\* The orders in which the lister may hand out the objects of a kind.
Perms(S) ==
    { q \in [ 1..Cardinality(S) -> S ] : \A i, j \in DOMAIN q : i # j => q[i] # q[j] }

NamesOfKind(k) == { n \in DOMAIN lister : KindOf(n) = k }

NewObject(n, spec) ==
    [ Name |-> n, Generation |-> 1, Spec |-> spec, Status |-> NewStatus ]

\* The functions that pick one of the choices given for each name.
Choices(c) ==
    { f \in [ DOMAIN c -> UNION { c[n] : n \in DOMAIN c } ] :
        \A n \in DOMAIN c : f[n] \in c[n] }

\* The state after New(): the objects and secrets are one of the choices
\* given for each name and nothing is cached; the watchers have run
\* `started` passes, all of them before the objects were created.
InitWith(specs, secrets, kindSets, started) ==
    /\ clock = 0
    /\ running \in kindSets
    /\ cancelled = FALSE
    /\ \E sp \in Choices(specs) : lister = [ n \in DOMAIN specs |-> NewObject(n, sp[n]) ]
    /\ secretLister \in Choices(secrets)
    /\ validatorCache = [ k \in CacheKeys |-> NoEntry ]
    /\ published = [ k \in Kinds |-> << >> ]
    /\ pc = [ k \in Kinds |-> "idle" ]
    /\ actualUpstreams = [ k \in Kinds |-> << >> ]
    /\ idx = [ k \in Kinds |-> 1 ]
    /\ requeue = [ k \in Kinds |-> FALSE ]
    /\ validatedUpstreams = [ k \in Kinds |-> << >> ]
    /\ ret = [ k \in Kinds |-> "none" ]
    /\ produced = [ k \in Kinds |-> << >> ]
    /\ setCalls = [ k \in Kinds |-> 0 ]
    /\ updateCalls = [ k \in Kinds |-> << >> ]
    /\ completeSet = [ k \in Kinds |-> << >> ]
    /\ passes = [ k \in Kinds |-> started ]
    /\ removed = {}

\* No WebhookAuthenticator is declared.
NoWebhooks ==
    /\ caBundleSources = [ k \in { "Secret", "ConfigMap" } |-> PEMGood ]
    /\ bundleEdits = 0
    /\ webhookAuthenticators = << >>
    /\ webhookStatusWrites = << >>

\* The watchers share nothing but the clock and the context, so Spec looks
\* at one watcher at a time: each behaviour schedules one of the two kinds.
Init ==
    /\ InitWith([ o1 |-> { SpecGood, SpecBadCA, SpecBadParam },
                  o2 |-> { SpecGoodCA },
                  g1 |-> { GitHubSpec },
                  g2 |-> { GitHubSpec } ],
                [ o1 |-> { SecretOK },
                  o2 |-> { SecretOK, SecretAbsent } ],
                { { KindOIDC }, { KindGitHub } }, 0)
    /\ lastCall = NoCall
    /\ putLog = << >>
    /\ NoWebhooks

\* Three OIDC providers with good secrets, exactly one of them with a CA
\* bundle that does not decode, created before the last pass the watcher
\* runs.
InitThree ==
    /\ InitWith([ o1 |-> { SpecGood, SpecBadCA, SpecNoCerts },
                  o2 |-> { SpecGoodCA, SpecBadCA },
                  o3 |-> { SpecGood, SpecNoCerts } ],
                [ o1 |-> { SecretOK }, o2 |-> { SecretOK }, o3 |-> { SecretOK } ],
                { { KindOIDC } }, MaxPasses - 1)
    /\ Cardinality({ n \in DOMAIN lister : lister[n].Spec \in InvalidCASpecs }) = 1
    /\ lastCall = NoCall
    /\ putLog = << >>
    /\ NoWebhooks

(***************************************************************************)
(* Sync of both watchers, one step per call that other work can interleave *)
(* with: the List, each validateUpstream, the final Set and return.        *)
(***************************************************************************)
\* Lister().List fails: Sync returns the wrapped error at once. The mutant
\* goes on to the end of Sync with the empty list before it returns.
SyncListFails_PublishesEmpty(k) ==
    /\ k \in running
    /\ pc[k] = "idle"
    /\ ~cancelled
    /\ passes[k] < MaxPasses
    /\ passes' = [ passes EXCEPT ![k] = @ + 1 ]
    /\ published' = [ published EXCEPT ![k] = << >> ]
    /\ setCalls' = [ setCalls EXCEPT ![k] = @ + 1 ]
    /\ ret' = [ ret EXCEPT ![k] = ErrListFailed ]
    /\ pc' = [ pc EXCEPT ![k] = "returned" ]
    /\ UNCHANGED << actualUpstreams, idx, requeue, validatedUpstreams, produced,
                    updateCalls, completeSet, envVars, lister, validatorCache,
                    callVars >>

SyncListFails(k) ==
    /\ k \in running
    /\ pc[k] = "idle"
    /\ ~cancelled
    /\ passes[k] < MaxPasses
    /\ passes' = [ passes EXCEPT ![k] = @ + 1 ]
    /\ ret' = [ ret EXCEPT ![k] = ErrListFailed ]
    /\ pc' = [ pc EXCEPT ![k] = "returned" ]
    /\ UNCHANGED << actualUpstreams, idx, requeue, validatedUpstreams, produced,
                    setCalls, updateCalls, completeSet, envVars, lister,
                    validatorCache, published,
                    callVars >>

\* Lister().List succeeds: the pass starts with the listed objects.
SyncList(k) ==
    /\ k \in running
    /\ pc[k] = "idle"
    /\ ~cancelled
    /\ passes[k] < MaxPasses
    /\ passes' = [ passes EXCEPT ![k] = @ + 1 ]
    /\ \E order \in Perms(NamesOfKind(k)) :
           actualUpstreams' = [ actualUpstreams EXCEPT ![k] =
                                  [ i \in DOMAIN order |-> lister[order[i]] ] ]
    /\ pc' = [ pc EXCEPT ![k] = "loop" ]
    /\ UNCHANGED << idx, requeue, validatedUpstreams, produced, setCalls,
                    updateCalls, ret, completeSet, envVars, lister,
                    validatorCache, published,
                    callVars >>

\* What validateUpstream computes for the object the loop is at. The mutant
\* has the GitHub watcher look for a client secret, which no
\* GitHubIdentityProvider of the model has.
Validation_GitHubValidatesClient(k, upstream, netUp, now) ==
    IF k = KindOIDC
    THEN oidcConditions(cancelled, netUp, now, validatorCache,
                        secretLister[upstream.Name], upstream)
    ELSE [ conditions |-> << validateSecret(SecretAbsent).cond >>,
           result |-> [ Name |-> upstream.Name, ClientID |-> "", AuthURL |-> "",
                        TokenURL |-> "", RevocationURL |-> "" ],
           cache |-> validatorCache ]

Validation(k, upstream, netUp, now) ==
    IF k = KindOIDC
    THEN oidcConditions(cancelled, netUp, now, validatorCache,
                        secretLister[upstream.Name], upstream)
    ELSE [ conditions |-> << >>,
           result |-> [ Name |-> upstream.Name, ClientID |-> "", AuthURL |-> "",
                        TokenURL |-> "", RevocationURL |-> "" ],
           cache |-> validatorCache ]

\* UpdateStatus of the client: the write fails under a cancelled context,
\* and with a conflict when the object was edited after the pass listed it.
updateFails(upstream) ==
    cancelled \/ lister[upstream.Name].Generation # upstream.Generation

\* updateStatus: nothing is sent when the merged object equals the listed
\* one; a failed update is logged and left at that. The informer delivers
\* the status of an update that succeeded; an update whose delivery lags
\* behind the next List looks to that pass like one that failed. The mutant
\* sends a failed update a second time.
updateStatus_RetryOnFailure(k, upstream, conditions, now) ==
    IF needsUpdate(upstream, conditions, now)
    THEN /\ updateCalls' = [ updateCalls EXCEPT ![k] =
                               IF updateFails(upstream)
                               THEN Append(Append(@, upstream.Name), upstream.Name)
                               ELSE Append(@, upstream.Name) ]
         /\ lister' = IF updateFails(upstream) THEN lister
                      ELSE [ lister EXCEPT ![upstream.Name].Status =
                               mergedStatus(upstream, conditions, now) ]
    ELSE UNCHANGED << updateCalls, lister >>

updateStatus(k, upstream, conditions, now) ==
    IF needsUpdate(upstream, conditions, now)
    THEN /\ updateCalls' = [ updateCalls EXCEPT ![k] = Append(@, upstream.Name) ]
         /\ lister' = IF updateFails(upstream) THEN lister
                      ELSE [ lister EXCEPT ![upstream.Name].Status =
                               mergedStatus(upstream, conditions, now) ]
    ELSE UNCHANGED << updateCalls, lister >>

\* Set...IdentityProviders of the published cache: the list is replaced.
SetIdentityProviders(cache, k, providers) == [ cache EXCEPT ![k] = providers ]

\* The body of the loop of Sync: the mutant stops at the first provider
\* that fails validation.
SyncValidate_AbortOnFailure(k) ==
    /\ pc[k] = "loop"
    /\ idx[k] <= Len(actualUpstreams[k])
    /\ \E now \in clock..MaxClock, netUp \in IF k = KindOIDC THEN BOOLEAN ELSE { TRUE } :
         LET upstream == actualUpstreams[k][idx[k]]
             v == Validation(k, upstream, netUp, now)
             valid == isValid(v.conditions)
         IN  /\ clock' = now
             /\ validatorCache' = v.cache
             /\ updateStatus(k, upstream, v.conditions, now)
             /\ produced' = [ produced EXCEPT ![k] = Append(@, v.conditions) ]
             /\ requeue' = [ requeue EXCEPT ![k] = @ \/ ~valid ]
             /\ validatedUpstreams' =
                    [ validatedUpstreams EXCEPT ![k] =
                        IF valid THEN Append(@, v.result) ELSE @ ]
             /\ idx' = [ idx EXCEPT ![k] =
                           IF valid THEN @ + 1 ELSE Len(actualUpstreams[k]) + 1 ]
    /\ UNCHANGED << pc, actualUpstreams, ret, setCalls, completeSet, running,
                    cancelled, secretLister, published, passes,
                    callVars >>

\* The mutant keeps the outcome of the last provider only in the flag.
SyncValidate_RequeueLast(k) ==
    /\ pc[k] = "loop"
    /\ idx[k] <= Len(actualUpstreams[k])
    /\ \E now \in clock..MaxClock, netUp \in IF k = KindOIDC THEN BOOLEAN ELSE { TRUE } :
         LET upstream == actualUpstreams[k][idx[k]]
             v == Validation(k, upstream, netUp, now)
             valid == isValid(v.conditions)
         IN  /\ clock' = now
             /\ validatorCache' = v.cache
             /\ updateStatus(k, upstream, v.conditions, now)
             /\ produced' = [ produced EXCEPT ![k] = Append(@, v.conditions) ]
             /\ requeue' = [ requeue EXCEPT ![k] = ~valid ]
             /\ validatedUpstreams' =
                    [ validatedUpstreams EXCEPT ![k] =
                        IF valid THEN Append(@, v.result) ELSE @ ]
             /\ idx' = [ idx EXCEPT ![k] = @ + 1 ]
    /\ UNCHANGED << pc, actualUpstreams, ret, setCalls, completeSet, running,
                    cancelled, secretLister, published, passes,
                    callVars >>

\* The mutant hands the list to the published cache as it grows.
SyncValidate_PublishEach(k) ==
    /\ pc[k] = "loop"
    /\ idx[k] <= Len(actualUpstreams[k])
    /\ \E now \in clock..MaxClock, netUp \in IF k = KindOIDC THEN BOOLEAN ELSE { TRUE } :
         LET upstream == actualUpstreams[k][idx[k]]
             v == Validation(k, upstream, netUp, now)
             valid == isValid(v.conditions)
         IN  /\ clock' = now
             /\ validatorCache' = v.cache
             /\ updateStatus(k, upstream, v.conditions, now)
             /\ produced' = [ produced EXCEPT ![k] = Append(@, v.conditions) ]
             /\ requeue' = [ requeue EXCEPT ![k] = @ \/ ~valid ]
             /\ validatedUpstreams' =
                    [ validatedUpstreams EXCEPT ![k] =
                        IF valid THEN Append(@, v.result) ELSE @ ]
             /\ idx' = [ idx EXCEPT ![k] = @ + 1 ]
             /\ published' = SetIdentityProviders(published, k,
                                 IF valid THEN Append(validatedUpstreams[k], v.result)
                                 ELSE validatedUpstreams[k])
    /\ UNCHANGED << pc, actualUpstreams, ret, setCalls, completeSet, running,
                    cancelled, secretLister, passes,
                    callVars >>

\* Time passes between the steps; the clock matters only where it is read
\* (metav1.Now() of updateStatus, the expiry of the validator cache), so its
\* advance is part of the step that reads it. The answer of the network to
\* a discovery request is an input of the step.
SyncValidate(k) ==
    /\ pc[k] = "loop"
    /\ idx[k] <= Len(actualUpstreams[k])
    /\ \E now \in clock..MaxClock, netUp \in IF k = KindOIDC THEN BOOLEAN ELSE { TRUE } :
         LET upstream == actualUpstreams[k][idx[k]]
             v == Validation(k, upstream, netUp, now)
             valid == isValid(v.conditions)
         IN  /\ clock' = now
             /\ validatorCache' = v.cache
             /\ updateStatus(k, upstream, v.conditions, now)
             /\ produced' = [ produced EXCEPT ![k] = Append(@, v.conditions) ]
             /\ requeue' = [ requeue EXCEPT ![k] = @ \/ ~valid ]
             /\ validatedUpstreams' =
                    [ validatedUpstreams EXCEPT ![k] =
                        IF valid THEN Append(@, v.result) ELSE @ ]
             /\ idx' = [ idx EXCEPT ![k] = @ + 1 ]
    /\ UNCHANGED << pc, actualUpstreams, ret, setCalls, completeSet, running,
                    cancelled, secretLister, published, passes,
                    callVars >>

\* The end of Sync: the mutant skips the Set when the pass ends with a requeue.
SyncPublish_SkipOnRequeue(k) ==
    /\ pc[k] = "loop"
    /\ idx[k] > Len(actualUpstreams[k])
    /\ IF requeue[k]
       THEN UNCHANGED << published, setCalls >>
       ELSE /\ published' = SetIdentityProviders(published, k, validatedUpstreams[k])
            /\ setCalls' = [ setCalls EXCEPT ![k] = @ + 1 ]
    /\ completeSet' = [ completeSet EXCEPT ![k] = validatedUpstreams[k] ]
    /\ ret' = [ ret EXCEPT ![k] = IF requeue[k] THEN ErrSyntheticRequeue ELSE RetNil ]
    /\ pc' = [ pc EXCEPT ![k] = "returned" ]
    /\ UNCHANGED << actualUpstreams, idx, requeue, validatedUpstreams, produced,
                    updateCalls, envVars, lister, validatorCache, passes,
                    callVars >>

\* The mutant returns nil whatever the requeue flag says.
SyncPublish_ReturnNil(k) ==
    /\ pc[k] = "loop"
    /\ idx[k] > Len(actualUpstreams[k])
    /\ published' = SetIdentityProviders(published, k, validatedUpstreams[k])
    /\ setCalls' = [ setCalls EXCEPT ![k] = @ + 1 ]
    /\ completeSet' = [ completeSet EXCEPT ![k] = validatedUpstreams[k] ]
    /\ ret' = [ ret EXCEPT ![k] = RetNil ]
    /\ pc' = [ pc EXCEPT ![k] = "returned" ]
    /\ UNCHANGED << actualUpstreams, idx, requeue, validatedUpstreams, produced,
                    updateCalls, envVars, lister, validatorCache, passes,
                    callVars >>

\* The mutant skips the Set when the context is cancelled.
SyncPublish_SkipOnCancel(k) ==
    /\ pc[k] = "loop"
    /\ idx[k] > Len(actualUpstreams[k])
    /\ IF cancelled
       THEN UNCHANGED << published, setCalls >>
       ELSE /\ published' = SetIdentityProviders(published, k, validatedUpstreams[k])
            /\ setCalls' = [ setCalls EXCEPT ![k] = @ + 1 ]
    /\ completeSet' = [ completeSet EXCEPT ![k] = validatedUpstreams[k] ]
    /\ ret' = [ ret EXCEPT ![k] = IF requeue[k] \/ cancelled THEN ErrSyntheticRequeue ELSE RetNil ]
    /\ pc' = [ pc EXCEPT ![k] = "returned" ]
    /\ UNCHANGED << actualUpstreams, idx, requeue, validatedUpstreams, produced,
                    updateCalls, envVars, lister, validatorCache, passes,
                    callVars >>

\* The mutant patches the published list: the providers of this pass are
\* written and those it does not replace are kept.
SyncPublish_Patch(k) ==
    /\ pc[k] = "loop"
    /\ idx[k] > Len(actualUpstreams[k])
    /\ published' = SetIdentityProviders(published, k,
                        validatedUpstreams[k] \o
                        SelectSeq(published[k],
                                  LAMBDA p : \A j \in 1..Len(validatedUpstreams[k]) :
                                                validatedUpstreams[k][j].Name # p.Name))
    /\ setCalls' = [ setCalls EXCEPT ![k] = @ + 1 ]
    /\ completeSet' = [ completeSet EXCEPT ![k] = validatedUpstreams[k] ]
    /\ ret' = [ ret EXCEPT ![k] = IF requeue[k] THEN ErrSyntheticRequeue ELSE RetNil ]
    /\ pc' = [ pc EXCEPT ![k] = "returned" ]
    /\ UNCHANGED << actualUpstreams, idx, requeue, validatedUpstreams, produced,
                    updateCalls, envVars, lister, validatorCache, passes,
                    callVars >>

\* The mutant's Set replaces the lists of every kind: the list of the
\* pass for its own kind and the empty list for the other.
SyncPublish_SetEveryKind(k) ==
    /\ pc[k] = "loop"
    /\ idx[k] > Len(actualUpstreams[k])
    /\ published' = [ other \in Kinds |->
                        IF other = k THEN validatedUpstreams[k] ELSE << >> ]
    /\ setCalls' = [ setCalls EXCEPT ![k] = @ + 1 ]
    /\ completeSet' = [ completeSet EXCEPT ![k] = validatedUpstreams[k] ]
    /\ ret' = [ ret EXCEPT ![k] = IF requeue[k] THEN ErrSyntheticRequeue ELSE RetNil ]
    /\ pc' = [ pc EXCEPT ![k] = "returned" ]
    /\ UNCHANGED << actualUpstreams, idx, requeue, validatedUpstreams, produced,
                    updateCalls, envVars, lister, validatorCache, passes,
                    callVars >>

SyncPublish(k) ==
    /\ pc[k] = "loop"
    /\ idx[k] > Len(actualUpstreams[k])
    /\ published' = SetIdentityProviders(published, k, validatedUpstreams[k])
    /\ setCalls' = [ setCalls EXCEPT ![k] = @ + 1 ]
    /\ completeSet' = [ completeSet EXCEPT ![k] = validatedUpstreams[k] ]
    /\ ret' = [ ret EXCEPT ![k] = IF requeue[k] THEN ErrSyntheticRequeue ELSE RetNil ]
    /\ pc' = [ pc EXCEPT ![k] = "returned" ]
    /\ UNCHANGED << actualUpstreams, idx, requeue, validatedUpstreams, produced,
                    updateCalls, envVars, lister, validatorCache, passes,
                    callVars >>

(***************************************************************************)
(* The collaborators: the driver, the informers, the editors.              *)
(***************************************************************************)
\* The driver takes the value Sync returned; the locals of the pass are gone.
SyncDone(k) ==
    /\ pc[k] = "returned"
    /\ pc' = [ pc EXCEPT ![k] = "idle" ]
    /\ actualUpstreams' = [ actualUpstreams EXCEPT ![k] = << >> ]
    /\ idx' = [ idx EXCEPT ![k] = 1 ]
    /\ requeue' = [ requeue EXCEPT ![k] = FALSE ]
    /\ validatedUpstreams' = [ validatedUpstreams EXCEPT ![k] = << >> ]
    /\ ret' = [ ret EXCEPT ![k] = "none" ]
    /\ produced' = [ produced EXCEPT ![k] = << >> ]
    /\ setCalls' = [ setCalls EXCEPT ![k] = 0 ]
    /\ updateCalls' = [ updateCalls EXCEPT ![k] = << >> ]
    /\ UNCHANGED << completeSet, envVars, lister, validatorCache, published, passes,
                    callVars >>

\* The context handed to Sync is cancelled; no further pass starts.
Cancel ==
    /\ ~cancelled
    /\ cancelled' = TRUE
    /\ UNCHANGED << clock, running, secretLister, lister, validatorCache,
                    published, syncVars,
                    callVars >>

\* The spec is edited in a field the validation does not read. A pass works
\* on the objects it listed, so an edit shows in the next List: the edit is
\* taken between two passes of the watcher of the kind, one edit of an
\* object between two passes.
BumpGeneration(n) ==
    /\ KindOf(n) \in running
    /\ pc[KindOf(n)] = "idle"
    /\ 0 < passes[KindOf(n)] /\ passes[KindOf(n)] < MaxPasses
    /\ lister[n].Generation <= passes[KindOf(n)]
    /\ lister' = [ lister EXCEPT ![n].Generation = @ + 1 ]
    /\ UNCHANGED << envVars, validatorCache, published, syncVars,
                    callVars >>

Next ==
    \/ \E k \in Kinds : SyncListFails(k)
    \/ \E k \in Kinds : SyncList(k)
    \/ \E k \in Kinds : SyncValidate(k)
    \/ \E k \in Kinds : SyncPublish(k)
    \/ \E k \in Kinds : SyncDone(k)
    \/ Cancel
    \/ \E n \in DOMAIN lister : BumpGeneration(n)

Spec == Init /\ [][Next]_vars

SpecThree == InitThree /\ [][Next]_vars

(***************************************************************************)
(* Providers and secrets that go away between and during the passes.       *)
(***************************************************************************)
\* Whether the provider is in the published list of its kind.
IsPublished(n) ==
    \E j \in 1..Len(published[KindOf(n)]) : published[KindOf(n)][j].Name = n

\* The object is deleted: the informer drops it. A pass works on the
\* objects it listed, so the deletion shows in the next List: it is taken
\* between two passes of the watcher of the kind.
Delete(n) ==
    /\ KindOf(n) \in running
    /\ pc[KindOf(n)] = "idle"
    /\ passes[KindOf(n)] < MaxPasses
    /\ lister' = [ m \in DOMAIN lister \ { n } |-> lister[m] ]
    /\ removed' = IF IsPublished(n) THEN removed \cup { n } ELSE removed
    /\ UNCHANGED << envVars, validatorCache, published, syncVars, lastCall, putLog,
                    webhookVars >>

\* The client credentials Secret of an OIDC provider is deleted; the
\* secret informer is read by each validateUpstream, so the deletion may
\* fall inside a pass.
DeleteSecret(n) ==
    /\ KindOIDC \in running
    /\ passes[KindOIDC] < MaxPasses \/ pc[KindOIDC] = "loop"
    /\ secretLister[n] # SecretAbsent
    /\ secretLister' = [ secretLister EXCEPT ![n] = SecretAbsent ]
    /\ removed' = IF IsPublished(n) THEN removed \cup { n } ELSE removed
    /\ UNCHANGED << clock, running, cancelled, lister, validatorCache, published,
                    syncVars, lastCall, putLog, webhookVars >>

\* Two providers of each kind with good specs and secrets.
InitDelete ==
    /\ InitWith([ o1 |-> { SpecGood },
                  o2 |-> { SpecGoodCA },
                  g1 |-> { GitHubSpec },
                  g2 |-> { GitHubSpec } ],
                [ o1 |-> { SecretOK },
                  o2 |-> { SecretOK } ],
                { { KindOIDC }, { KindGitHub } }, 0)
    /\ lastCall = NoCall
    /\ putLog = << >>
    /\ NoWebhooks

\* The passes of the watchers, the cancellation, and the deletions.
NextDelete ==
    \/ \E k \in Kinds : SyncListFails(k)
    \/ \E k \in Kinds : SyncList(k)
    \/ \E k \in Kinds : SyncValidate(k)
    \/ \E k \in Kinds : SyncPublish(k)
    \/ \E k \in Kinds : SyncDone(k)
    \/ Cancel
    \/ \E n \in DOMAIN lister : Delete(n)
    \/ \E n \in DOMAIN secretLister : DeleteSecret(n)

SpecDelete == InitDelete /\ [][NextDelete]_vars

(***************************************************************************)
(* Both watchers scheduled at once: their passes interleave step by step.  *)
(***************************************************************************)
\* The controller manager runs the OIDC watcher and the GitHub watcher
\* side by side, on one published cache.
InitBoth ==
    /\ InitWith([ o1 |-> { SpecGood },
                  o2 |-> { SpecBadParam },
                  g1 |-> { GitHubSpec },
                  g2 |-> { GitHubSpec } ],
                [ o1 |-> { SecretOK },
                  o2 |-> { SecretOK } ],
                { Kinds }, 0)
    /\ lastCall = NoCall
    /\ putLog = << >>
    /\ NoWebhooks

NextBoth ==
    \/ \E k \in Kinds : SyncListFails(k)
    \/ \E k \in Kinds : SyncList(k)
    \/ \E k \in Kinds : SyncValidate(k)
    \/ \E k \in Kinds : SyncPublish(k)
    \/ \E k \in Kinds : SyncDone(k)

SpecBoth == InitBoth /\ [][NextBoth]_vars

(***************************************************************************)
(* MergeIDPConditions called directly, on lists of any shape.              *)
(***************************************************************************)
\* What the direct calls leave alone: the watchers and their informers.
watcherVars == << running, cancelled, lister, secretLister, published, syncVars,
                 removed >>
idleVars == << watcherVars, webhookVars >>

\* No watcher is scheduled: the state the direct calls are made in.
InitIdle ==
    InitWith([ o1 |-> { SpecGood } ], [ o1 |-> { SecretOK } ], { {} }, 0)

SeqsUpTo(S, n) == UNION { [ 1..m -> S ] : m \in 0..n }

\* The conditions handed in: two Types, a True and two False with
\* different Reasons.
MergeTypes == { typeClientCredentialsSecretValid, typeOIDCDiscoverySucceeded }

IncomingConditions ==
    { Condition(t, v[1], v[2], << >>) :
        t \in MergeTypes,
        v \in { << ConditionTrue, ReasonSuccess >>,
                << ConditionFalse, reasonUnreachable >>,
                << ConditionFalse, reasonInvalidResponse >> } }

\* The conditions a stored list is made of: written at time 0 for
\* generation 1.
StoredConditions ==
    { [ c EXCEPT !.ObservedGeneration = 1 ] :
        c \in { d \in IncomingConditions : d.Reason # reasonInvalidResponse } }

MergeGenerations == { 1, 2 }

\* The arguments of a call are chosen: a stored list in any order, with or
\* without repeated Types, and an incoming list likewise.
InitMerge ==
    /\ InitIdle
    /\ NoWebhooks
    /\ putLog = << >>
    /\ \E conditionsToUpdate \in SeqsUpTo(StoredConditions, MaxConditions),
          conditions \in SeqsUpTo(IncomingConditions, MaxConditions),
          observedGeneration \in MergeGenerations :
           lastCall = [ op |-> "input",
                        conditionsToUpdate |-> conditionsToUpdate,
                        conditions |-> conditions,
                        observedGeneration |-> observedGeneration,
                        now |-> 0,
                        result |-> << >>,
                        hadErrorCondition |-> FALSE,
                        changed |-> FALSE ]

\* MergeIDPConditions(conditions, observedGeneration, &conditionsToUpdate)
\* at clock reading now.
MergeCall ==
    /\ lastCall.op = "input"
    /\ \E now \in clock..MaxClock :
           LET m == MergeIDPConditions(lastCall.conditions, lastCall.observedGeneration,
                                       lastCall.conditionsToUpdate, now)
           IN  /\ clock' = now
               /\ lastCall' = [ lastCall EXCEPT
                                  !.op = "merged",
                                  !.now = now,
                                  !.result = m.conds,
                                  !.hadErrorCondition = m.hadErrorCondition,
                                  !.changed = MergeLoopChanged(lastCall.conditions,
                                                  lastCall.observedGeneration,
                                                  lastCall.conditionsToUpdate, now) ]
    /\ UNCHANGED << idleVars, validatorCache, putLog >>

\* The same call once more, on the list the first call left, at a clock
\* reading that is not earlier.
MergeAgain ==
    /\ lastCall.op = "merged"
    /\ \E now \in clock..MaxClock :
           LET m == MergeIDPConditions(lastCall.conditions, lastCall.observedGeneration,
                                       lastCall.result, now)
           IN  /\ clock' = now
               /\ lastCall' = [ lastCall EXCEPT
                                  !.op = "remerged",
                                  !.conditionsToUpdate = lastCall.result,
                                  !.now = now,
                                  !.result = m.conds,
                                  !.hadErrorCondition = m.hadErrorCondition,
                                  !.changed = MergeLoopChanged(lastCall.conditions,
                                                  lastCall.observedGeneration,
                                                  lastCall.result, now) ]
    /\ UNCHANGED << idleVars, validatorCache, putLog >>

NextMerge == MergeCall \/ MergeAgain

SpecMerge == InitMerge /\ [][NextMerge]_vars

(***************************************************************************)
(* The validator cache called directly, by callers in any order.           *)
(***************************************************************************)
\* The specs the callers look up and store under: the same issuer with no
\* TLS block, an empty bundle, a bundle, the bundle with one more byte,
\* and the bundle with another issuer.
CacheSpecs ==
    { [ Issuer |-> IssuerGood, TLS |-> NoTLS, AdditionalAuthorizeParameters |-> << >> ],
      [ Issuer |-> IssuerGood, TLS |-> TLSWith(""), AdditionalAuthorizeParameters |-> << >> ],
      [ Issuer |-> IssuerGood, TLS |-> TLSWith(CAGood), AdditionalAuthorizeParameters |-> << >> ],
      [ Issuer |-> IssuerGood, TLS |-> TLSWith(CAGoodNL), AdditionalAuthorizeParameters |-> << >> ],
      [ Issuer |-> IssuerBadAuth, TLS |-> TLSWith(CAGood), AdditionalAuthorizeParameters |-> << >> ] }

\* The (provider, client) pairs a caller has at hand after a discovery.
Discovered ==
    { [ provider |-> DiscoveryDoc(IssuerGood), client |-> "" ],
      [ provider |-> DiscoveryDoc(IssuerBadAuth), client |-> "-----BEGIN CERTIFICATE-----" ] }

\* The direct calls are made while the clock runs past the expiry of an
\* entry stored at any reading up to MaxClock.
MaxCacheClock == oidcValidatorCacheTTL + MaxClock

InitCache ==
    /\ InitIdle
    /\ NoWebhooks
    /\ lastCall = NoCall
    /\ putLog = << >>

\* putProvider(spec, provider, client) at clock reading now.
CachePut ==
    /\ Len(putLog) < MaxPuts
    /\ \E spec \in CacheSpecs, d \in Discovered, now \in clock..MaxClock :
           /\ clock' = now
           /\ validatorCache' = putProvider(validatorCache, spec, d.provider, d.client, now)
           /\ putLog' = Append(putLog, [ spec |-> spec, provider |-> d.provider,
                                         client |-> d.client, now |-> now ])
           /\ lastCall' = [ op |-> "putProvider", spec |-> spec, now |-> now,
                            found |-> FALSE, provider |-> d.provider, client |-> d.client ]
    /\ UNCHANGED idleVars

\* getProvider(spec) at clock reading now.
CacheGet ==
    /\ \E spec \in CacheSpecs, now \in clock..MaxCacheClock :
           LET e == getProvider(validatorCache, spec, now)
           IN  /\ clock' = now
               /\ lastCall' = [ op |-> "getProvider", spec |-> spec, now |-> now,
                                found |-> e.present, provider |-> e.provider,
                                client |-> e.client ]
    /\ UNCHANGED << idleVars, validatorCache, putLog >>

NextCache == CachePut \/ CacheGet

SpecCache == InitCache /\ [][NextCache]_vars

(***************************************************************************)
(* The validators of the OIDC watcher called directly.                     *)
(***************************************************************************)
\* The URL strings handed to validateHTTPSURL ("://" does not parse).
URLStrings ==
    { "https://example.com", "http://example.com", "https://example.com?x=1",
      "https://example.com#top", "https://example.com?%zz=1", "https://localhost",
      "http://localhost", "/authorize", "://", "https://idp.example.com/token",
      "https://badauth.example.com/token?x=1" }

\* The endpointType and reason arguments of the four calls in validateIssuer.
EndpointRoles ==
    { << "issuer", reasonUnreachable >>,
      << "revocation endpoint", reasonInvalidResponse >>,
      << "authorization endpoint", reasonInvalidResponse >>,
      << "token endpoint", reasonInvalidResponse >> }

CallValidateHTTPSURL ==
    /\ lastCall = NoCall
    /\ \E u \in URLStrings, role \in EndpointRoles :
           lastCall' = [ op |-> "validateHTTPSURL",
                         maybeHTTPSURL |-> u,
                         endpointType |-> role[1],
                         reason |-> role[2],
                         condition |-> validateHTTPSURL(u, role[1], role[2]) ]
    /\ UNCHANGED << idleVars, clock, validatorCache, putLog >>

\* The parameter names configured: the denylist, a name it does not hold and
\* a name that differs from a denylisted one in case only.
ParamNames == disallowedAdditionalAuthorizeParameters \cup { "prompt", "Scope" }

\* validateUpstream for a provider with the given parameters and secret, an
\* issuer that the network reaches or not, and an empty validator cache.
CallValidateUpstream ==
    /\ lastCall = NoCall
    /\ \E params \in SeqsUpTo(ParamNames, MaxParams), secret \in { SecretOK, SecretAbsent },
          netUp \in BOOLEAN :
           LET upstream == NewObject("o1", [ SpecGood EXCEPT
                                               !.AdditionalAuthorizeParameters = params ])
               v == oidcConditions(FALSE, netUp, clock, validatorCache, secret, upstream)
           IN  lastCall' = [ op |-> "validateUpstream",
                             upstream |-> upstream,
                             secret |-> secret,
                             netUp |-> netUp,
                             conditions |-> v.conditions,
                             valid |-> isValid(v.conditions) ]
    /\ UNCHANGED << idleVars, clock, validatorCache, putLog >>

\* The additional scopes configured.
ScopeNames == { ScopeOrder[i] : i \in 1..Len(ScopeOrder) }

CallComputeScopes ==
    /\ lastCall = NoCall
    /\ \E additionalScopes \in SeqsUpTo(ScopeNames, MaxScopes) :
           lastCall' = [ op |-> "computeScopes",
                         additionalScopes |-> additionalScopes,
                         scopes |-> computeScopes(additionalScopes) ]
    /\ UNCHANGED << idleVars, clock, validatorCache, putLog >>

\* What the secret lister may hold under the secret name: nothing, or a
\* secret of either type whose two data values are each there or empty.
SecretValues ==
    { SecretAbsent }
        \cup [ present : { TRUE }, Type : { oidcClientSecretType, "Opaque" },
               clientID : { "", "some-client-id" },
               clientSecret : { "", "some-client-secret" } ]

CallValidateSecret ==
    /\ lastCall = NoCall
    /\ \E secret \in SecretValues :
           LET v == validateSecret(secret)
           IN  lastCall' = [ op |-> "validateSecret",
                             secret |-> secret,
                             condition |-> v.cond,
                             ClientID |-> v.ClientID,
                             ClientSecret |-> v.ClientSecret ]
    /\ UNCHANGED << idleVars, clock, validatorCache, putLog >>

\* The issuer and TLS settings of a provider.
IssuerSpecs ==
    { [ Issuer |-> i, TLS |-> t, AdditionalAuthorizeParameters |-> << >> ] :
        i \in Issuers, t \in { NoTLS } \cup { TLSWith(ca) : ca \in CADatas } }

\* validateIssuer, at the time of the clock or later, on a validator cache
\* that is empty or holds what an earlier validation of some provider, at
\* the time of the clock, left in it.
CallValidateIssuer ==
    /\ lastCall = NoCall
    /\ \E spec \in IssuerSpecs, earlier \in IssuerSpecs,
          warm \in BOOLEAN, netUp \in BOOLEAN, now \in clock..MaxClock :
           LET cache == IF warm
                        THEN validateIssuer(FALSE, TRUE, clock, validatorCache, earlier).cache
                        ELSE validatorCache
               v == validateIssuer(cancelled, netUp, now, cache, spec)
           IN  lastCall' = [ op |-> "validateIssuer",
                             spec |-> spec,
                             netUp |-> netUp,
                             now |-> now,
                             cached |-> getProvider(cache, spec, now).present,
                             client |-> getClient(spec),
                             condition |-> v.cond,
                             endpoint |-> v.endpoint,
                             discoveryRequests |-> v.discoveryRequests,
                             stored |-> v.cache # cache,
                             entryBefore |-> cache[cacheKey(spec)],
                             entryAfter |-> v.cache[cacheKey(spec)] ]
    /\ UNCHANGED << idleVars, clock, validatorCache, putLog >>

NextValidate ==
    \/ CallValidateHTTPSURL
    \/ CallValidateIssuer
    \/ CallValidateSecret
    \/ CallComputeScopes
    \/ CallValidateUpstream

InitValidate ==
    /\ InitIdle
    /\ NoWebhooks
    /\ lastCall = NoCall
    /\ putLog = << >>

SpecValidate == InitValidate /\ [][NextValidate]_vars

(***************************************************************************)
(* The WebhookAuthenticator controller of the Concierge, as the            *)
(* specification and the integration tests describe it.                    *)
(***************************************************************************)
typeAuthenticatorValid == "AuthenticatorValid"
typeEndpointURLValid == "EndpointURLValid"
typeReady == "Ready"
typeTLSConfigurationValid == "TLSConfigurationValid"
typeWebhookConnectionValid == "WebhookConnectionValid"

reasonNotReady == "NotReady"
reasonUnableToValidate == "UnableToValidate"
reasonUnableToDialServer == "UnableToDialServer"

WebhookNames == { "w1", "w2" }
BundleKinds == { "Secret", "ConfigMap" }

\* What the tests write into a CA bundle resource.
NotABundle == "this is not a valid CA bundle value"
BundleValues == { PEMGood, NotABundle }

\* The endpoint of the test webhook, whose certificate the CA of PEMGood
\* signed, and an endpoint nothing listens on.
TestWebhookEndpoint == "https://webhook.example.com/authenticate"
UnresponsiveEndpoint == "https://127.0.0.1:443/some-fake-endpoint"

\* spec.tls: inline base64 data, or a reference to a Secret or ConfigMap.
InlineCA(data) == [ CertificateAuthorityData |-> data, Kind |-> "" ]
CABundleSource(kind) == [ CertificateAuthorityData |-> "", Kind |-> kind ]

\* The specs of the status tests, and the specs with an external bundle.
InlineWebhookSpecs ==
    { [ Endpoint |-> TestWebhookEndpoint, TLS |-> InlineCA(CAGood) ],
      [ Endpoint |-> TestWebhookEndpoint, TLS |-> InlineCA(CANotBase64) ],
      [ Endpoint |-> TestWebhookEndpoint, TLS |-> InlineCA(caBundleSomePivotalCA) ],
      [ Endpoint |-> UnresponsiveEndpoint, TLS |-> InlineCA(caBundleSomePivotalCA) ] }

ExternalWebhookSpecs ==
    { [ Endpoint |-> TestWebhookEndpoint, TLS |-> CABundleSource(k) ] : k \in BundleKinds }

\* The TLS/CA bundle check: the condition and the trust store ("" : the
\* system store). A referenced resource holds the PEM bundle itself.
webhookTLS(tls, sources) ==
    LET valid(pool) ==
            [ cond |-> Condition(typeTLSConfigurationValid, ConditionTrue, ReasonSuccess,
                                 << "spec.tls is valid" >>),
              rootCAs |-> pool ]
        invalid(msg) ==
            [ cond |-> Condition(typeTLSConfigurationValid, ConditionFalse,
                                 ReasonInvalidTLSConfig, msg),
              rootCAs |-> "" ]
    IN  IF tls.Kind # ""
        THEN IF AppendCertsFromPEM(sources[tls.Kind])
             THEN valid(sources[tls.Kind])
             ELSE invalid(<< "spec.tls.certificateAuthorityDataSource is invalid",
                             "no certificates found" >>)
        ELSE IF tls.CertificateAuthorityData = "" THEN valid("")
        ELSE LET d == DecodeBase64(tls.CertificateAuthorityData)
             IN  IF d.err
                 THEN invalid(<< "spec.tls.certificateAuthorityData is invalid",
                                 "illegal base64 data" >>)
                 ELSE IF ~AppendCertsFromPEM(d.bytes)
                 THEN invalid(<< "spec.tls.certificateAuthorityData is invalid",
                                 "no certificates found" >>)
                 ELSE valid(d.bytes)

\* The connectivity probe: the error of the TLS dial ("" : it succeeded).
Dial(endpoint, rootCAs) ==
    IF endpoint = UnresponsiveEndpoint THEN "connect: connection refused"
    ELSE IF rootCAs # PEMGood THEN "x509: certificate signed by unknown authority"
    ELSE ""

UnableToValidate(type) ==
    Condition(type, ConditionUnknown, reasonUnableToValidate,
              << "unable to validate; see other conditions for details" >>)

\* The Ready condition, derived from the others. The mutant derives it
\* from the TLS condition alone.
readyCondition_FromTLSOnly(others) ==
    IF \A i \in 1..Len(others) :
           others[i].Type = typeTLSConfigurationValid => others[i].Status = ConditionTrue
    THEN Condition(typeReady, ConditionTrue, ReasonSuccess,
                   << "the WebhookAuthenticator is ready" >>)
    ELSE Condition(typeReady, ConditionFalse, reasonNotReady,
                   << "the WebhookAuthenticator is not ready" >>)

readyCondition(others) ==
    IF \A i \in 1..Len(others) : others[i].Status = ConditionTrue
    THEN Condition(typeReady, ConditionTrue, ReasonSuccess,
                   << "the WebhookAuthenticator is ready" >>)
    ELSE Condition(typeReady, ConditionFalse, reasonNotReady,
                   << "the WebhookAuthenticator is not ready" >>)

\* The status of a WebhookAuthenticator: the conditions in the order of
\* their Types, and the Phase.
webhookStatus(spec, sources) ==
    LET tls == webhookTLS(spec.TLS, sources)
        endpoint == Condition(typeEndpointURLValid, ConditionTrue, ReasonSuccess,
                              << "spec.endpoint is a valid URL" >>)
        dialErr == Dial(spec.Endpoint, tls.rootCAs)
        connection ==
            IF tls.cond.Status # ConditionTrue
            THEN UnableToValidate(typeWebhookConnectionValid)
            ELSE IF dialErr # ""
            THEN Condition(typeWebhookConnectionValid, ConditionFalse,
                           reasonUnableToDialServer, << "cannot dial server", dialErr >>)
            ELSE Condition(typeWebhookConnectionValid, ConditionTrue, ReasonSuccess,
                           << "successfully dialed webhook server" >>)
        authenticator ==
            IF tls.cond.Status = ConditionTrue /\ connection.Status = ConditionTrue
            THEN Condition(typeAuthenticatorValid, ConditionTrue, ReasonSuccess,
                           << "authenticator initialized" >>)
            ELSE UnableToValidate(typeAuthenticatorValid)
        ready == readyCondition(<< authenticator, endpoint, tls.cond, connection >>)
    IN  [ Phase |-> IF ready.Status = ConditionTrue THEN PhaseReady ELSE PhaseError,
          Conditions |-> << authenticator, endpoint, ready, tls.cond, connection >> ]

\* The authenticators of the tests are created and nothing has synced.
InitWebhook ==
    /\ InitIdle
    /\ lastCall = NoCall
    /\ putLog = << >>
    /\ caBundleSources = [ k \in BundleKinds |-> PEMGood ]
    /\ bundleEdits = 0
    /\ \E external \in ExternalWebhookSpecs, inline \in InlineWebhookSpecs :
           webhookAuthenticators =
               [ n \in WebhookNames |->
                   NewObject(n, IF n = "w1" THEN external ELSE inline) ]
    /\ webhookStatusWrites = [ n \in WebhookNames |-> 0 ]

\* updateCABundle of the tests: the value of a CA bundle resource is
\* overwritten.
updateCABundle(kind, caBundle) ==
    /\ bundleEdits < MaxBundleEdits
    /\ caBundleSources[kind] # caBundle
    /\ caBundleSources' = [ caBundleSources EXCEPT ![kind] = caBundle ]
    /\ bundleEdits' = bundleEdits + 1
    /\ UNCHANGED << watcherVars, clock, validatorCache, lastCall, putLog,
                    webhookAuthenticators, webhookStatusWrites >>

\* A sync of the controller for one authenticator: it is triggered by the
\* authenticator, by the resources holding CA bundles and by the periodic
\* resync, and writes the status when it differs. The mutant is triggered
\* by the authenticator alone.
WebhookSync_OnAuthenticatorOnly(n) ==
    LET obj == webhookAuthenticators[n]
        status == webhookStatus(obj.Spec, caBundleSources)
    IN  /\ obj.Status = NewStatus
        /\ webhookAuthenticators' = [ webhookAuthenticators EXCEPT ![n].Status = status ]
        /\ webhookStatusWrites' = [ webhookStatusWrites EXCEPT ![n] = @ + 1 ]
        /\ UNCHANGED << watcherVars, clock, validatorCache, lastCall, putLog,
                        caBundleSources, bundleEdits >>

WebhookSync(n) ==
    LET obj == webhookAuthenticators[n]
        status == webhookStatus(obj.Spec, caBundleSources)
    IN  /\ status # obj.Status
        /\ webhookAuthenticators' = [ webhookAuthenticators EXCEPT ![n].Status = status ]
        /\ webhookStatusWrites' = [ webhookStatusWrites EXCEPT ![n] = @ + 1 ]
        /\ UNCHANGED << watcherVars, clock, validatorCache, lastCall, putLog,
                        caBundleSources, bundleEdits >>

NextWebhook ==
    \/ \E kind \in BundleKinds, caBundle \in BundleValues : updateCABundle(kind, caBundle)
    \/ \E n \in WebhookNames : WebhookSync(n)

\* Every change a sync would write is written in the end: the controller
\* is triggered again for as long as it runs.
SpecWebhook ==
    /\ InitWebhook
    /\ [][NextWebhook]_vars
    /\ \A n \in WebhookNames : WF_vars(WebhookSync(n))

(***************************************************************************)
(* Vocabulary of the properties.                                           *)
(***************************************************************************)
\* The pass of kind k has returned and its List had succeeded.
ListedOK(k) == pc[k] = "returned" /\ ret[k] # ErrListFailed

NamesIn(list) == { list[i].Name : i \in 1..Len(list) }

AllTrue(conds) == \A j \in 1..Len(conds) : conds[j].Status = ConditionTrue

SomeFalse(conds) == \E j \in 1..Len(conds) : conds[j].Status = ConditionFalse

StripTime(conds) ==
    [ j \in 1..Len(conds) |-> [ conds[j] EXCEPT !.LastTransitionTime = 0 ] ]

Stamp(conds, gen) ==
    [ j \in 1..Len(conds) |-> [ conds[j] EXCEPT !.ObservedGeneration = gen ] ]

\* The status shows, transition times aside, exactly the outcome conds of a
\* validation of generation gen.
Reflects(status, conds, gen) ==
    /\ status.Phase = IF SomeFalse(conds) THEN PhaseError ELSE PhaseReady
    /\ StripTime(status.Conditions) = StripTime(SortByType(Stamp(conds, gen)))

\* The condition reports a configuration error: a CA bundle that does not
\* decode, or a disallowed additional authorize parameter.
ConfigError(c) ==
    /\ c.Status = ConditionFalse
    /\ c.Reason \in { ReasonInvalidTLSConfig, reasonDisallowedParameterName }

HasConfigError(conds) == \E j \in 1..Len(conds) : ConfigError(conds[j])

\* The discovery request of the validation was aborted by the cancellation.
Aborted(conds) ==
    \E j \in 1..Len(conds) :
        /\ conds[j].Type = typeOIDCDiscoverySucceeded
        /\ conds[j].Status = ConditionFalse
        /\ Len(conds[j].Message) = 3
        /\ conds[j].Message[3] = errContextCanceled

\* The positions of the pass whose provider has a CA bundle that does not decode.
InvalidCAPositions(k) ==
    { i \in 1..Len(actualUpstreams[k]) : actualUpstreams[k][i].Spec \in InvalidCASpecs }

(***************************************************************************)
(* Properties.                                                             *)
(***************************************************************************)
\* C1: in a pass whose List succeeded, Set...IdentityProviders is not called
\* while the loop over the listed providers runs, and when Sync returns it
\* has been called exactly once and every listed provider has been
\* validated, whether or not a status changed or the pass asks for a requeue.
SetOncePerPass ==
    \A k \in Kinds :
        /\ pc[k] = "loop" => setCalls[k] = 0
        /\ ListedOK(k) =>
               /\ setCalls[k] = 1
               /\ Len(produced[k]) = Len(actualUpstreams[k])
               /\ idx[k] = Len(actualUpstreams[k]) + 1

\* A pass that changed no status and asks for a requeue has called Set once.
SetOncePerPass_Witness ==
    \E k \in Kinds :
        /\ ListedOK(k)
        /\ ret[k] = ErrSyntheticRequeue
        /\ updateCalls[k] = << >>
        /\ Len(actualUpstreams[k]) = 2
        /\ setCalls[k] = 1

\* C2: when Sync returns, every listed provider has been validated, its
\* status shows its own outcome, and it is among the published providers
\* exactly when its own conditions hold no False, whatever the outcomes of
\* the other providers of the pass.
FailuresDoNotAbortPass ==
    \A k \in Kinds :
        ListedOK(k) =>
            /\ Len(produced[k]) = Len(actualUpstreams[k])
            /\ \A i \in 1..Len(actualUpstreams[k]) :
                   LET upstream == actualUpstreams[k][i]
                   IN  /\ i <= Len(produced[k])
                       /\ (upstream.Name \in NamesIn(published[k]))
                              <=> ~SomeFalse(produced[k][i])
                       /\ ~cancelled =>
                              Reflects(lister[upstream.Name].Status, produced[k][i],
                                       upstream.Generation)

\* The first provider of the pass failed validation and the second one is
\* published.
FailuresDoNotAbortPass_Witness ==
    \E k \in Kinds :
        /\ ListedOK(k)
        /\ ~cancelled
        /\ Len(actualUpstreams[k]) = 2
        /\ SomeFalse(produced[k][1])
        /\ lister[actualUpstreams[k][1].Name].Status.Phase = PhaseError
        /\ NamesIn(published[k]) = { actualUpstreams[k][2].Name }

\* C3 (as the code has it): with three OIDC providers of which exactly one
\* has a CA bundle that does not decode, that provider is not published and
\* its status shows OIDCDiscoverySucceeded with Status False and Reason
\* InvalidTLSConfig (and no condition of Type TLSConfigurationValid); each
\* of the other two whose validation succeeded is published and its status
\* shows three conditions, all with Status True.
InvalidCAReportedAsDiscoveryFailure ==
    LET k == KindOIDC
    IN  (ListedOK(k) /\ ~cancelled /\ Len(actualUpstreams[k]) = 3
             /\ Cardinality(InvalidCAPositions(k)) = 1) =>
            \A i \in 1..3 :
                LET upstream == actualUpstreams[k][i]
                    conds == lister[upstream.Name].Status.Conditions
                IN  IF i \in InvalidCAPositions(k)
                    THEN /\ upstream.Name \notin NamesIn(published[k])
                         /\ \E j \in 1..Len(conds) :
                                /\ conds[j].Type = typeOIDCDiscoverySucceeded
                                /\ conds[j].Status = ConditionFalse
                                /\ conds[j].Reason = ReasonInvalidTLSConfig
                         /\ \A j \in 1..Len(conds) :
                                conds[j].Type # "TLSConfigurationValid"
                    ELSE AllTrue(produced[k][i]) =>
                             /\ upstream.Name \in NamesIn(published[k])
                             /\ Len(conds) = 3
                             /\ AllTrue(conds)

\* A pass over the three providers has published the two valid ones.
InvalidCAReportedAsDiscoveryFailure_Witness ==
    LET k == KindOIDC
    IN  /\ ListedOK(k)
        /\ ~cancelled
        /\ Len(actualUpstreams[k]) = 3
        /\ Cardinality(InvalidCAPositions(k)) = 1
        /\ Len(published[k]) = 2
        /\ \A i \in 1..3 :
               i \notin InvalidCAPositions(k) =>
                   AllTrue(lister[actualUpstreams[k][i].Name].Status.Conditions)
        /\ \E i \in InvalidCAPositions(k) :
               lister[actualUpstreams[k][i].Name].Status.Phase = PhaseError

\* C3 as stated: the status of the provider with the invalid CA bundle shows
\* a condition of Type TLSConfigurationValid with Status False.
InvalidCAReportedAsTLSConfigurationValid ==
    LET k == KindOIDC
    IN  (ListedOK(k) /\ ~cancelled /\ Len(actualUpstreams[k]) = 3
             /\ Cardinality(InvalidCAPositions(k)) = 1) =>
            \A i \in InvalidCAPositions(k) :
                LET upstream == actualUpstreams[k][i]
                    conds == lister[upstream.Name].Status.Conditions
                IN  /\ upstream.Name \notin NamesIn(published[k])
                    /\ \E j \in 1..Len(conds) :
                           /\ conds[j].Type = "TLSConfigurationValid"
                           /\ conds[j].Status = ConditionFalse

\* C4: a provider is among the published providers of a pass only if every
\* condition its validation produced has Status True.
PublishedOnlyIfAllTrue ==
    \A k \in Kinds :
        ListedOK(k) =>
            \A i \in 1..Len(actualUpstreams[k]) :
                actualUpstreams[k][i].Name \in NamesIn(published[k])
                    => AllTrue(produced[k][i])

\* A provider with conditions of Status True and one of Status False, the
\* discovery condition among the True ones, was left out.
PublishedOnlyIfAllTrue_Witness ==
    \E k \in Kinds :
        /\ ListedOK(k)
        /\ \E i \in 1..Len(actualUpstreams[k]) :
               /\ SomeFalse(produced[k][i])
               /\ \E j \in 1..Len(produced[k][i]) :
                      /\ produced[k][i][j].Type = typeOIDCDiscoverySucceeded
                      /\ produced[k][i][j].Status = ConditionTrue
               /\ actualUpstreams[k][i].Name \notin NamesIn(published[k])

\* C5: a pass whose List succeeded returns the synthetic requeue exactly
\* when a listed provider is not among the published ones, and nil exactly
\* when every listed provider is.
RequeueIffProviderExcluded ==
    \A k \in Kinds :
        ListedOK(k) =>
            LET excluded == { i \in 1..Len(actualUpstreams[k]) :
                                actualUpstreams[k][i].Name \notin NamesIn(published[k]) }
            IN  /\ ret[k] \in { RetNil, ErrSyntheticRequeue }
                /\ ret[k] = ErrSyntheticRequeue <=> excluded # {}
                /\ ret[k] = RetNil <=> excluded = {}
                /\ \A i \in excluded : SomeFalse(produced[k][i])

\* The first provider of the pass was left out, the second one is published
\* and the pass asks for a requeue.
RequeueIffProviderExcluded_Witness ==
    \E k \in Kinds :
        /\ ListedOK(k)
        /\ Len(actualUpstreams[k]) = 2
        /\ NamesIn(published[k]) = { actualUpstreams[k][2].Name }
        /\ ret[k] = ErrSyntheticRequeue

\* C6: a pass whose List failed returns an error that is neither nil nor
\* the synthetic requeue, has validated no provider, has issued no status
\* update, has not called Set, and the published providers are those of
\* the last pass that finished its loop.
ListFailureChangesNothing ==
    \A k \in Kinds :
        (pc[k] = "returned" /\ ret[k] = ErrListFailed) =>
            /\ ret[k] \notin { RetNil, ErrSyntheticRequeue }
            /\ produced[k] = << >>
            /\ updateCalls[k] = << >>
            /\ setCalls[k] = 0
            /\ published[k] = completeSet[k]

\* The List failed in a pass that follows one which published a provider.
ListFailureChangesNothing_Witness ==
    \E k \in Kinds :
        /\ pc[k] = "returned"
        /\ ret[k] = ErrListFailed
        /\ passes[k] = 2
        /\ published[k] # << >>

\* C7 (as the code has it): a configuration error is reported in the
\* conditions of the provider, the provider is not published, and the pass
\* returns the synthetic requeue like any other pass that leaves a provider
\* out.
ConfigErrorsRequeue ==
    \A k \in Kinds :
        ListedOK(k) =>
            \A i \in 1..Len(actualUpstreams[k]) :
                HasConfigError(produced[k][i]) =>
                    /\ ret[k] = ErrSyntheticRequeue
                    /\ actualUpstreams[k][i].Name \notin NamesIn(published[k])
                    /\ ~cancelled =>
                           /\ lister[actualUpstreams[k][i].Name].Status.Phase = PhaseError
                           /\ HasConfigError(
                                  lister[actualUpstreams[k][i].Name].Status.Conditions)

\* The failed conditions of the pass are configuration errors, all of them.
OnlyConfigErrors(k) ==
    /\ \E i \in 1..Len(produced[k]) : HasConfigError(produced[k][i])
    /\ \A i \in 1..Len(produced[k]) :
           \A j \in 1..Len(produced[k][i]) :
               produced[k][i][j].Status = ConditionFalse => ConfigError(produced[k][i][j])

\* A pass whose only failures are configuration errors asks for a requeue.
ConfigErrorsRequeue_Witness ==
    \E k \in Kinds :
        /\ ListedOK(k)
        /\ ~cancelled
        /\ OnlyConfigErrors(k)
        /\ ret[k] = ErrSyntheticRequeue

\* C7 as stated: a pass whose only failures are configuration errors does
\* not return the synthetic requeue.
ConfigErrorsDoNotRequeue ==
    \A k \in Kinds :
        (ListedOK(k) /\ OnlyConfigErrors(k)) => ret[k] # ErrSyntheticRequeue

PublishedIsCompleteSet ==
    \A k \in Kinds : published[k] = completeSet[k]

\* A pass is inside its loop with a list that differs from the published
\* one, which an earlier pass wrote.
PublishedIsCompleteSet_Witness ==
    \E k \in Kinds :
        /\ pc[k] = "loop"
        /\ idx[k] = 2
        /\ passes[k] = 2
        /\ published[k] # << >>
        /\ validatedUpstreams[k] # published[k]

\* C10: a validation step issues a status update only if the merged status
\* differs from the listed one; when the listed status already shows the
\* outcome of the validation for the listed generation, the step issues no
\* update, whatever the clock reads.
UpdateOnlyOnDifference ==
    [][ \A k \in Kinds :
          (pc[k] = "loop" /\ idx'[k] = idx[k] + 1) =>
              LET upstream == actualUpstreams[k][idx[k]]
                  conditions == produced'[k][idx[k]]
                  issued == updateCalls'[k] # updateCalls[k]
              IN  /\ issued => mergedStatus(upstream, conditions, clock') # upstream.Status
                  /\ Reflects(upstream.Status, conditions, upstream.Generation)
                         => ~issued ]_vars

\* A second pass has validated both providers at a later clock reading than
\* the one their conditions were stamped with, and has issued no update.
UpdateOnlyOnDifference_Witness ==
    \E k \in Kinds :
        /\ ListedOK(k)
        /\ passes[k] = 2
        /\ Len(produced[k]) = 2
        /\ updateCalls[k] = << >>
        /\ \A i \in 1..2 :
               LET conds == lister[actualUpstreams[k][i].Name].Status.Conditions
               IN  /\ conds # << >>
                   /\ \A j \in 1..Len(conds) : conds[j].LastTransitionTime < clock

\* The Phase the conditions of a status call for.
PhaseOf(conds) == IF SomeFalse(conds) THEN PhaseError ELSE PhaseReady

Merged == lastCall.op \in { "merged", "remerged" }

TypesOf(list) == { list[i].Type : i \in 1..Len(list) }

DistinctTypes(list) ==
    \A i, j \in 1..Len(list) : i # j => list[i].Type # list[j].Type

SortedByType(list) ==
    \A i, j \in 1..Len(list) : i < j => ~TypeLess(list[j].Type, list[i].Type)

\* The orderings of a list.
PermsOfSeq(seq) ==
    { [ i \in 1..Len(seq) |-> seq[f[i]] ] : f \in Perms(1..Len(seq)) }

\* C12 (as the code has it): the merge returns true exactly when an
\* incoming condition has Status False. That agrees with the merged list
\* holding a False when the stored and the incoming Types are each pairwise
\* distinct and every stored Type is among the incoming ones.
MergeReportsIncomingFalse ==
    Merged =>
        /\ lastCall.hadErrorCondition <=> SomeFalse(lastCall.conditions)
        /\ (DistinctTypes(lastCall.conditions)
                /\ DistinctTypes(lastCall.conditionsToUpdate)
                /\ TypesOf(lastCall.conditionsToUpdate) \subseteq TypesOf(lastCall.conditions))
               => (lastCall.hadErrorCondition <=> SomeFalse(lastCall.result))

\* The stored list holds a False of a Type that is not handed in, the
\* incoming conditions are all True, and the merge returns false.
MergeReportsIncomingFalse_Witness ==
    /\ lastCall.op = "merged"
    /\ lastCall.conditions # << >>
    /\ AllTrue(lastCall.conditions)
    /\ SomeFalse(lastCall.result)
    /\ ~lastCall.hadErrorCondition

\* C12 as stated: the merge returns true exactly when the merged list holds
\* a condition of Status False.
MergeReportsResultFalse ==
    Merged => (lastCall.hadErrorCondition <=> SomeFalse(lastCall.result))

\* C13: each incoming condition merged leaves the entry of its Type with the
\* stored LastTransitionTime when the stored entry of that Type has the
\* same Status, whatever else differs, and with the time of the merge when
\* the Status differs or the Type was not stored; for a Type handed in
\* once, that is the relation between the list before the call and the
\* list after it.
TransitionTimeFollowsStatus ==
    Merged =>
        \A p \in 1..Len(lastCall.conditions) :
            LET type == lastCall.conditions[p].Type
                before == MergeLoop(SubSeq(lastCall.conditions, 1, p - 1),
                                    lastCall.observedGeneration,
                                    lastCall.conditionsToUpdate, lastCall.now)
                after == MergeLoop(SubSeq(lastCall.conditions, 1, p),
                                   lastCall.observedGeneration,
                                   lastCall.conditionsToUpdate, lastCall.now)
                Expected(stored) ==
                    LET i == FindOld(stored, type)
                    IN  IF i # 0 /\ stored[i].Status = lastCall.conditions[p].Status
                        THEN stored[i].LastTransitionTime
                        ELSE lastCall.now
            IN  /\ FindOld(after, type) # 0
                /\ after[FindOld(after, type)].LastTransitionTime = Expected(before)
                /\ Cardinality({ q \in 1..Len(lastCall.conditions) :
                                   lastCall.conditions[q].Type = type }) = 1
                       => /\ FindOld(lastCall.result, type) # 0
                          /\ lastCall.result[FindOld(lastCall.result, type)].LastTransitionTime
                                 = Expected(lastCall.conditionsToUpdate)

\* A merge at a later time than the stored one: one Type keeps its Status
\* with another Reason and generation and keeps the stored time, the other
\* changes its Status and takes the time of the merge.
TransitionTimeFollowsStatus_Witness ==
    /\ lastCall.op = "merged"
    /\ lastCall.now > 0
    /\ lastCall.observedGeneration = 2
    /\ Len(lastCall.conditionsToUpdate) = 2
    /\ DistinctTypes(lastCall.conditionsToUpdate)
    /\ Len(lastCall.conditions) = 2
    /\ Len(lastCall.result) = 2
    /\ \E i, j \in 1..2 :
           /\ lastCall.result[i].LastTransitionTime = 0
           /\ lastCall.result[i].Reason = reasonInvalidResponse
           /\ lastCall.result[j].LastTransitionTime = lastCall.now
           /\ lastCall.result[j].Status = ConditionTrue

\* C14: the list a merge leaves is sorted ascending by Type, for incoming
\* conditions in any order, for a stored list in any order, and when
\* nothing is handed in.
MergedListIsSorted ==
    Merged => SortedByType(lastCall.result)

\* Nothing was handed in and the stored list was not in order.
MergedListIsSorted_Witness ==
    /\ lastCall.op = "merged"
    /\ lastCall.conditions = << >>
    /\ ~SortedByType(lastCall.conditionsToUpdate)
    /\ SortedByType(lastCall.result)

\* C15 (as the code has it): for incoming conditions of pairwise distinct
\* Types, the same merge run again on the list the first run left, at the
\* same or a later clock reading, changes no entry and leaves the list as
\* it was.
MergeIdempotentForDistinctTypes ==
    (lastCall.op = "remerged" /\ DistinctTypes(lastCall.conditions)) =>
        /\ lastCall.result = lastCall.conditionsToUpdate
        /\ ~lastCall.changed

\* The second run of a merge of two conditions was made after the time the
\* entries carry, and changed nothing.
MergeIdempotentForDistinctTypes_Witness ==
    /\ lastCall.op = "remerged"
    /\ Len(lastCall.conditions) = 2
    /\ DistinctTypes(lastCall.conditions)
    /\ \A j \in 1..Len(lastCall.result) :
           lastCall.result[j].LastTransitionTime < lastCall.now
    /\ lastCall.result = lastCall.conditionsToUpdate
    /\ ~lastCall.changed

\* C15 as stated: the second run changes nothing, for any incoming list.
MergeIdempotent ==
    lastCall.op = "remerged" =>
        /\ lastCall.result = lastCall.conditionsToUpdate
        /\ ~lastCall.changed

\* C16 (as the code has it): for incoming conditions of pairwise distinct
\* Types, every ordering of them merged into the same stored list for the
\* same generation at the same clock reading leaves the same list.
MergeOrderIndependentForDistinctTypes ==
    (lastCall.op = "merged" /\ DistinctTypes(lastCall.conditions)) =>
        \A other \in PermsOfSeq(lastCall.conditions) :
            MergeIDPConditions(other, lastCall.observedGeneration,
                               lastCall.conditionsToUpdate, lastCall.now).conds
                = lastCall.result

\* Two conditions of Types not stored were handed in in descending order of
\* Type.
MergeOrderIndependentForDistinctTypes_Witness ==
    /\ lastCall.op = "merged"
    /\ lastCall.conditionsToUpdate = << >>
    /\ Len(lastCall.conditions) = 2
    /\ TypeLess(lastCall.conditions[2].Type, lastCall.conditions[1].Type)
    /\ Len(lastCall.result) = 2

\* C16 as stated: every ordering of the incoming conditions leaves the same
\* list, for any incoming list.
MergeOrderIndependent ==
    lastCall.op = "merged" =>
        \A other \in PermsOfSeq(lastCall.conditions) :
            MergeIDPConditions(other, lastCall.observedGeneration,
                               lastCall.conditionsToUpdate, lastCall.now).conds
                = lastCall.result

\* C17: a merge into a stored list of pairwise distinct Types leaves a list
\* of pairwise distinct Types whose Types are those stored together with
\* those handed in, also when a Type is handed in twice.
TypesStayUnique ==
    (Merged /\ DistinctTypes(lastCall.conditionsToUpdate)) =>
        /\ DistinctTypes(lastCall.result)
        /\ TypesOf(lastCall.result)
               = TypesOf(lastCall.conditionsToUpdate) \cup TypesOf(lastCall.conditions)

\* One Type is stored and the other Type is handed in twice.
TypesStayUnique_Witness ==
    /\ lastCall.op = "merged"
    /\ Len(lastCall.conditionsToUpdate) = 1
    /\ Len(lastCall.conditions) = 2
    /\ lastCall.conditions[1].Type = lastCall.conditions[2].Type
    /\ lastCall.conditions[1].Type # lastCall.conditionsToUpdate[1].Type
    /\ Len(lastCall.result) = 2

(***************************************************************************)
(* Properties of the validator cache called directly.                      *)
(***************************************************************************)
\* The raw CA bundle string of a spec ("" without a TLS block).
CAString(spec) == IF spec.TLS.present THEN spec.TLS.CertificateAuthorityData ELSE ""

\* The issuer strings and the raw CA bundle strings are both identical.
SameFingerprint(a, b) == a.Issuer = b.Issuer /\ CAString(a) = CAString(b)

\* The direct puts made under the fingerprint of spec.
PutsFor(spec) == { i \in 1..Len(putLog) : SameFingerprint(putLog[i].spec, spec) }

LastPutFor(spec) == CHOOSE i \in PutsFor(spec) : \A j \in PutsFor(spec) : j <= i

\* C18: a getProvider under a fingerprint that was stored finds the entry
\* exactly when less than the TTL has passed since the last putProvider
\* under that fingerprint: found at every earlier reading of the clock, not
\* found at the reading of the expiry and after it.
EntryFoundUntilTTL ==
    (lastCall.op = "getProvider" /\ PutsFor(lastCall.spec) # {}) =>
        LET put == putLog[LastPutFor(lastCall.spec)]
        IN  lastCall.found <=> lastCall.now < put.now + oidcValidatorCacheTTL

\* The entry was found at the last clock reading before its expiry.
EntryFoundUntilTTL_Witness ==
    /\ lastCall.op = "getProvider"
    /\ PutsFor(lastCall.spec) # {}
    /\ lastCall.now = putLog[LastPutFor(lastCall.spec)].now + oidcValidatorCacheTTL - 1
    /\ lastCall.now > putLog[LastPutFor(lastCall.spec)].now
    /\ lastCall.found

\* C19: two specs have the same cache key exactly when their issuer strings
\* and their raw CA bundle strings are both identical, and a getProvider
\* finds an entry only if a putProvider was made under the same issuer
\* string and the same raw CA bundle string.
KeyIsIssuerAndRawBundle ==
    /\ \A a, b \in CacheSpecs : cacheKey(a) = cacheKey(b) <=> SameFingerprint(a, b)
    /\ (lastCall.op = "getProvider" /\ lastCall.found) => PutsFor(lastCall.spec) # {}

\* An entry stored and not expired is not found under the same issuer with
\* a bundle that differs in one byte and decodes to the same certificates,
\* nor under the same bundle with another issuer.
KeyIsIssuerAndRawBundle_Witness ==
    /\ lastCall.op = "getProvider"
    /\ ~lastCall.found
    /\ \E i \in 1..Len(putLog) :
           /\ lastCall.now < putLog[i].now + oidcValidatorCacheTTL
           /\ \/ /\ putLog[i].spec.Issuer = lastCall.spec.Issuer
                 /\ { CAString(putLog[i].spec), CAString(lastCall.spec) }
                        = { CAGood, CAGoodNL }
              \/ /\ putLog[i].spec.Issuer # lastCall.spec.Issuer
                 /\ CAString(putLog[i].spec) = CAString(lastCall.spec)

\* C20: whatever the order of the getProvider and putProvider calls, a
\* getProvider that finds an entry returns the provider and the client that
\* one single putProvider under the same fingerprint stored together.
PairFromOnePut ==
    (lastCall.op = "getProvider" /\ lastCall.found) =>
        \E i \in PutsFor(lastCall.spec) :
            /\ lastCall.provider = putLog[i].provider
            /\ lastCall.client = putLog[i].client

\* Two puts stored different pairs under one fingerprint, and the
\* getProvider returns the pair of the second.
PairFromOnePut_Witness ==
    /\ lastCall.op = "getProvider"
    /\ lastCall.found
    /\ Cardinality(PutsFor(lastCall.spec)) = 2
    /\ \E i, j \in PutsFor(lastCall.spec) :
           /\ i < j
           /\ putLog[i].provider # putLog[j].provider
           /\ putLog[i].client # putLog[j].client
           /\ lastCall.provider = putLog[j].provider
           /\ lastCall.client = putLog[j].client


(***************************************************************************)
(* Properties of the validators called directly.                           *)
(***************************************************************************)
\* validateHTTPSURL has returned.
ValidatedURL == lastCall.op = "validateHTTPSURL"

\* The condition a rejected URL gets: OIDCDiscoverySucceeded, False, with
\* the reason of the endpoint role.
RejectedWith(call) ==
    /\ call.condition.Type = typeOIDCDiscoverySucceeded
    /\ call.condition.Status = ConditionFalse
    /\ call.condition.Reason = call.reason

\* C21: for every endpoint role a URL is accepted (no condition produced)
\* only if it parses, its scheme is https, localhost included, and it
\* carries no query string and no fragment; a URL that is not accepted gets
\* a False condition with the reason of the role; http://example.com is
\* rejected with a message naming the https scheme, https://example.com?x=1
\* for its query string, and https://example.com passes.
AcceptedURLHasNoQueryString ==
    ValidatedURL =>
        LET parsedURL == ParseURL(lastCall.maybeHTTPSURL)
        IN  /\ lastCall.condition = NoCondition =>
                   /\ ~parsedURL.err
                   /\ parsedURL.Scheme = "https"
                   /\ parsedURL.RawQuery = ""
                   /\ parsedURL.Fragment = ""
            /\ lastCall.condition # NoCondition => RejectedWith(lastCall)
            /\ lastCall.maybeHTTPSURL \in { "http://example.com", "http://localhost" } =>
                   lastCall.condition.Message[1] = "URL must have https scheme"
            /\ lastCall.maybeHTTPSURL = "https://example.com?x=1" =>
                   lastCall.condition.Message[1] =
                       "URL cannot contain query or fragment component"
            /\ lastCall.maybeHTTPSURL = "https://example.com" =>
                   lastCall.condition = NoCondition

\* validateUpstream has returned.
ValidatedUpstream == lastCall.op = "validateUpstream"

\* The names of a list that the denylist holds, in the order of the list.
Denylisted(params) ==
    SelectSeq(params, LAMBDA n : n \in disallowedAdditionalAuthorizeParameters)

\* The condition of the given Type among the conditions of a call.
ConditionOf(conditions, type) ==
    conditions[CHOOSE i \in 1..Len(conditions) : conditions[i].Type = type]

\* C22: when a configured additional authorize parameter has a denylisted
\* name, validateUpstream yields AdditionalAuthorizeParametersValid False
\* with Reason DisallowedParameterName and a message that lists every
\* rejected name in configuration order, and returns no provider; when no
\* name is denylisted the condition is True with Reason Success. The
\* denylist is the nine fixed names.
DenylistedParametersRejected ==
    /\ disallowedAdditionalAuthorizeParameters =
           { "response_type", "scope", "client_id", "state", "nonce",
             "code_challenge", "code_challenge_method", "redirect_uri", "hd" }
    /\ ValidatedUpstream =>
           LET params == lastCall.upstream.Spec.AdditionalAuthorizeParameters
               c == ConditionOf(lastCall.conditions, typeAdditionalAuthorizeParametersValid)
           IN  /\ Cardinality({ i \in 1..Len(lastCall.conditions) :
                      lastCall.conditions[i].Type =
                          typeAdditionalAuthorizeParametersValid }) = 1
               /\ IF Denylisted(params) # << >>
                  THEN /\ c.Status = ConditionFalse
                       /\ c.Reason = reasonDisallowedParameterName
                       /\ Tail(c.Message) = Denylisted(params)
                       /\ ~lastCall.valid
                  ELSE /\ c.Status = ConditionTrue
                       /\ c.Reason = ReasonSuccess

\* Two denylisted names were configured around an allowed one, with a good
\* secret: both are listed, in that order, and no provider is returned.
DenylistedParametersRejected_Witness ==
    /\ ValidatedUpstream
    /\ lastCall.secret = SecretOK
    /\ \E i, j \in 1..Len(lastCall.upstream.Spec.AdditionalAuthorizeParameters) :
           /\ i < j
           /\ lastCall.upstream.Spec.AdditionalAuthorizeParameters[i] = "redirect_uri"
           /\ lastCall.upstream.Spec.AdditionalAuthorizeParameters[j] = "hd"
    /\ ~lastCall.valid

\* computeScopes has returned.
ComputedScopes == lastCall.op = "computeScopes"

Range(seq) == { seq[i] : i \in 1..Len(seq) }

\* The position of a scope in the sorted order of the scope strings.
ScopeRank(x) == CHOOSE i \in 1..Len(ScopeOrder) : ScopeOrder[i] = x

\* C23: computeScopes returns the list openid, offline_access, email,
\* profile when no additional scope is configured; otherwise its result
\* holds openid and the configured scopes and nothing else, each once, in
\* sorted order (groups alone gives groups, openid); the result holds
\* openid in both cases.
ScopesAreSortedUnionWithOpenID ==
    ComputedScopes =>
        LET configured == lastCall.additionalScopes
            scopes == lastCall.scopes
        IN  /\ configured = << >> =>
                   scopes = << "openid", "offline_access", "email", "profile" >>
            /\ configured # << >> =>
                   /\ Range(scopes) = { "openid" } \cup Range(configured)
                   /\ \A i, j \in 1..Len(scopes) :
                          i < j => ScopeRank(scopes[i]) < ScopeRank(scopes[j])
            /\ configured = << "groups" >> => scopes = << "groups", "openid" >>
            /\ "openid" \in Range(scopes)

\* A scope was configured twice, after a scope that sorts behind it, and
\* openid was not configured.
ScopesAreSortedUnionWithOpenID_Witness ==
    /\ ComputedScopes
    /\ Len(lastCall.additionalScopes) = 3
    /\ lastCall.additionalScopes[1] = "profile"
    /\ lastCall.additionalScopes[2] = lastCall.additionalScopes[3]
    /\ lastCall.additionalScopes[2] = "groups"
    /\ lastCall.scopes = << "groups", "openid", "profile" >>

\* validateSecret has returned.
ValidatedSecret == lastCall.op = "validateSecret"

\* C24: validateSecret gives one ClientCredentialsSecretValid condition:
\* False/NotFound when the secret is absent; else False/WrongType when its
\* type is wrong; else False/MissingKeys when the client ID or the client
\* secret is missing or empty; else True/Success. The client ID and the
\* client secret are copied into the result in the Success case only.
\* validateUpstream puts that one condition of the Type into its list.
SecretCheckedInOrder ==
    /\ ValidatedSecret =>
           LET secret == lastCall.secret
               c == lastCall.condition
               expected ==
                   IF ~secret.present THEN << ConditionFalse, ReasonNotFound >>
                   ELSE IF secret.Type # "secrets.pinniped.dev/oidc-client"
                   THEN << ConditionFalse, ReasonWrongType >>
                   ELSE IF secret.clientID = "" \/ secret.clientSecret = ""
                   THEN << ConditionFalse, ReasonMissingKeys >>
                   ELSE << ConditionTrue, ReasonSuccess >>
           IN  /\ c.Type = typeClientCredentialsSecretValid
               /\ << c.Status, c.Reason >> = expected
               /\ IF c.Reason = ReasonSuccess
                  THEN /\ lastCall.ClientID = secret.clientID
                       /\ lastCall.ClientSecret = secret.clientSecret
                  ELSE /\ lastCall.ClientID = ""
                       /\ lastCall.ClientSecret = ""
    /\ ValidatedUpstream =>
           /\ Cardinality({ i \in 1..Len(lastCall.conditions) :
                  lastCall.conditions[i].Type = typeClientCredentialsSecretValid }) = 1
           /\ ConditionOf(lastCall.conditions, typeClientCredentialsSecretValid) =
                  validateSecret(lastCall.secret).cond

\* A secret of the wrong type that also lacks the client secret was
\* checked: the type is reported and nothing is copied.
SecretCheckedInOrder_Witness ==
    /\ ValidatedSecret
    /\ lastCall.secret.present
    /\ lastCall.secret.Type = "Opaque"
    /\ lastCall.secret.clientSecret = ""
    /\ lastCall.secret.clientID # ""
    /\ lastCall.condition.Reason = ReasonWrongType
    /\ lastCall.ClientID = ""

\* validateIssuer has returned.
ValidatedIssuer == lastCall.op = "validateIssuer"

\* The CA bundle of a spec is one getClient refuses: it is not empty and
\* either is not base64 or decodes to bytes that hold no certificate.
InvalidBundle(spec) ==
    /\ spec.TLS.present
    /\ spec.TLS.CertificateAuthorityData # ""
    /\ \/ DecodeBase64(spec.TLS.CertificateAuthorityData).err
       \/ ~AppendCertsFromPEM(DecodeBase64(spec.TLS.CertificateAuthorityData).bytes)

\* C25: without a TLS block, or with an empty CA bundle, getClient gives a
\* client on the system trust store and no error; with a bundle that is
\* not base64, or that decodes to bytes without a certificate,
\* validateIssuer gives a False condition with Reason InvalidTLSConfig,
\* whose message differs between the two cases, and makes no discovery
\* request, whatever the validator cache holds.
InvalidBundleStopsDiscovery ==
    ValidatedIssuer =>
        LET spec == lastCall.spec
            c == lastCall.condition
        IN  /\ (~spec.TLS.present \/ spec.TLS.CertificateAuthorityData = "") =>
                   /\ lastCall.client = [ err |-> << >>, rootCAs |-> "" ]
                   /\ c.Reason # ReasonInvalidTLSConfig
            /\ InvalidBundle(spec) =>
                   /\ c.Status = ConditionFalse
                   /\ c.Reason = ReasonInvalidTLSConfig
                   /\ c.Message[2] =
                          IF DecodeBase64(spec.TLS.CertificateAuthorityData).err
                          THEN "illegal base64 data" ELSE "no certificates found"
                   /\ lastCall.discoveryRequests = 0
                   /\ ~lastCall.stored
            /\ c.Reason = ReasonInvalidTLSConfig => InvalidBundle(spec)

\* A provider with a good issuer whose bundle holds no certificate was
\* validated with the network up: no discovery request was made.
InvalidBundleStopsDiscovery_Witness ==
    /\ ValidatedIssuer
    /\ lastCall.spec.Issuer = IssuerGood
    /\ lastCall.spec.TLS = TLSWith(CANoCerts)
    /\ lastCall.netUp
    /\ lastCall.condition.Reason = ReasonInvalidTLSConfig
    /\ lastCall.discoveryRequests = 0

(***************************************************************************)
(* Properties of the WebhookAuthenticator controller.                      *)
(***************************************************************************)
\* The authenticator takes its CA bundle from a Secret or a ConfigMap.
External(n) == webhookAuthenticators[n].Spec.TLS.Kind # ""

\* The value of the resource the authenticator's bundle comes from ("" :
\* the bundle is inline).
BundleOf(n) ==
    IF External(n) THEN caBundleSources[webhookAuthenticators[n].Spec.TLS.Kind] ELSE ""

WebhookPhase(n) == webhookAuthenticators[n].Status.Phase

\* The status shows Phase Error with TLSConfigurationValid False for the
\* reason InvalidTLSConfig.
ReportsInvalidTLS(n) ==
    LET conds == webhookAuthenticators[n].Status.Conditions
    IN  /\ WebhookPhase(n) = PhaseError
        /\ \E i \in 1..Len(conds) :
               /\ conds[i].Type = typeTLSConfigurationValid
               /\ conds[i].Status = ConditionFalse
               /\ conds[i].Reason = ReasonInvalidTLSConfig

\* C26: for an authenticator whose CA bundle comes from a Secret or a
\* ConfigMap: once it is Ready and the bundle has been overwritten with a
\* string that holds no certificate, it comes to show Phase Error with
\* TLSConfigurationValid False/InvalidTLSConfig unless the bundle is
\* overwritten again first; once it shows that and the bundle has been
\* restored, it comes back to Phase Ready unless the bundle is overwritten
\* again first; and no step edits the authenticator's spec or generation.
ExternalBundleIsFollowed ==
    /\ \A n \in WebhookNames :
           /\ (External(n) /\ WebhookPhase(n) = PhaseReady /\ BundleOf(n) = NotABundle)
                  ~> (ReportsInvalidTLS(n) \/ BundleOf(n) # NotABundle)
           /\ (External(n) /\ ReportsInvalidTLS(n) /\ BundleOf(n) = PEMGood)
                  ~> (WebhookPhase(n) = PhaseReady \/ BundleOf(n) # PEMGood)
    /\ [][ \A n \in WebhookNames :
             /\ webhookAuthenticators'[n].Spec = webhookAuthenticators[n].Spec
             /\ webhookAuthenticators'[n].Generation =
                    webhookAuthenticators[n].Generation ]_webhookVars

\* An authenticator with an external bundle is Ready after three status
\* updates: the first made it Ready, the second showed the overwritten
\* bundle, the third the restored one.
ExternalBundleIsFollowed_Witness ==
    /\ webhookAuthenticators # << >>
    /\ \E n \in WebhookNames :
           /\ External(n)
           /\ webhookStatusWrites[n] = 3
           /\ WebhookPhase(n) = PhaseReady
           /\ BundleOf(n) = PEMGood
           /\ webhookAuthenticators[n].Generation = 1

\* The conditions of a list other than Ready.
OtherThanReady(conds) == SelectSeq(conds, LAMBDA c : c.Type # typeReady)

\* C27: in every status the controller has written, Ready is True with
\* Reason Success exactly when every other condition is True, and False
\* with Reason NotReady when another condition is False or Unknown; when
\* TLSConfigurationValid is False, WebhookConnectionValid and
\* AuthenticatorValid are Unknown with Reason UnableToValidate and the
\* Phase is Error.
ReadyIsDerived ==
    \A n \in DOMAIN webhookAuthenticators :
        LET status == webhookAuthenticators[n].Status
            conds == status.Conditions
            ready == ConditionOf(conds, typeReady)
            others == OtherThanReady(conds)
        IN  status # NewStatus =>
                /\ Len(others) = Len(conds) - 1
                /\ (ready.Status = ConditionTrue /\ ready.Reason = ReasonSuccess) <=>
                       \A i \in 1..Len(others) : others[i].Status = ConditionTrue
                /\ (\E i \in 1..Len(others) :
                        others[i].Status \in { ConditionFalse, ConditionUnknown }) =>
                       /\ ready.Status = ConditionFalse
                       /\ ready.Reason = reasonNotReady
                /\ ConditionOf(conds, typeTLSConfigurationValid).Status = ConditionFalse =>
                       /\ \A t \in { typeWebhookConnectionValid, typeAuthenticatorValid } :
                              /\ ConditionOf(conds, t).Status = ConditionUnknown
                              /\ ConditionOf(conds, t).Reason = reasonUnableToValidate
                       /\ status.Phase = PhaseError

\* One authenticator shows TLSConfigurationValid False with Ready False,
\* and another shows every condition True.
ReadyIsDerived_Witness ==
    \E n, m \in DOMAIN webhookAuthenticators :
        /\ webhookAuthenticators[n].Status # NewStatus
        /\ webhookAuthenticators[m].Status # NewStatus
        /\ ConditionOf(webhookAuthenticators[n].Status.Conditions,
                       typeTLSConfigurationValid).Status = ConditionFalse
        /\ ConditionOf(webhookAuthenticators[n].Status.Conditions,
                       typeReady).Status = ConditionFalse
        /\ \A i \in 1..Len(webhookAuthenticators[m].Status.Conditions) :
               webhookAuthenticators[m].Status.Conditions[i].Status = ConditionTrue

\* The object at position i of the pass of kind k was sent in an
\* UpdateStatus that failed: the update was issued, and the informer still
\* holds the status the pass listed.
UpdateFailedAt(k, i) ==
    /\ i < idx[k]
    /\ \E j \in 1..Len(updateCalls[k]) : updateCalls[k][j] = actualUpstreams[k][i].Name
    /\ lister[actualUpstreams[k][i].Name].Status = actualUpstreams[k][i].Status

\* The names of a list of providers, in order.
NamesOf(providers) == [ j \in 1..Len(providers) |-> providers[j].Name ]

\* C28: a pass issues at most one UpdateStatus per provider; past a
\* provider whose update failed the loop goes on, so that a pass that
\* returns has validated every listed object; and that provider is in the
\* list the pass builds, and in the published set once the pass returns,
\* exactly when its conditions are valid, the pass returning the
\* synthetic requeue exactly when some object of the pass is invalid.
FailedUpdateIsNotRetried ==
    \A k \in Kinds :
        /\ \A a, b \in 1..Len(updateCalls[k]) :
               updateCalls[k][a] = updateCalls[k][b] => a = b
        /\ \A i \in 1..Len(actualUpstreams[k]) :
               UpdateFailedAt(k, i) =>
                   /\ Len(produced[k]) = idx[k] - 1
                   /\ (\E j \in 1..Len(validatedUpstreams[k]) :
                           validatedUpstreams[k][j].Name = actualUpstreams[k][i].Name)
                          <=> isValid(produced[k][i])
                   /\ pc[k] = "returned" =>
                          /\ idx[k] = Len(actualUpstreams[k]) + 1
                          /\ published[k] = validatedUpstreams[k]
                          /\ ret[k] = IF \E j \in 1..Len(produced[k]) :
                                             ~isValid(produced[k][j])
                                      THEN ErrSyntheticRequeue ELSE RetNil

\* A pass has returned nil after the update of its first object failed:
\* the second object was validated after it and both are published.
FailedUpdateIsNotRetried_Witness ==
    \E k \in Kinds :
        /\ pc[k] = "returned"
        /\ Len(actualUpstreams[k]) = 2
        /\ UpdateFailedAt(k, 1)
        /\ Len(produced[k]) = 2
        /\ NamesOf(published[k]) = NamesOf(actualUpstreams[k])
        /\ ret[k] = RetNil

\* C29: the GitHub watcher validates nothing: every object a pass has gone
\* over is in the list the pass builds, at its position, with no
\* condition produced and Ready as the Phase computed for it, which the
\* informer shows unless the update failed; the requeue flag is never
\* set, and a pass whose List succeeded returns nil with every listed
\* object published, in list order.
GitHubValidatesNothing ==
    /\ ~requeue[KindGitHub]
    /\ ret[KindGitHub] # ErrSyntheticRequeue
    /\ NamesOf(validatedUpstreams[KindGitHub]) =
           SubSeq(NamesOf(actualUpstreams[KindGitHub]), 1, idx[KindGitHub] - 1)
    /\ \A i \in 1..(idx[KindGitHub] - 1) :
           LET upstream == actualUpstreams[KindGitHub][i]
           IN  /\ produced[KindGitHub][i] = << >>
               /\ mergedStatus(upstream, produced[KindGitHub][i], clock).Phase = PhaseReady
               /\ ~UpdateFailedAt(KindGitHub, i) =>
                      lister[upstream.Name].Status.Phase = PhaseReady
    /\ (pc[KindGitHub] = "returned" /\ ret[KindGitHub] # ErrListFailed) =>
           /\ ret[KindGitHub] = RetNil
           /\ NamesOf(published[KindGitHub]) = NamesOf(actualUpstreams[KindGitHub])

\* A GitHub pass has returned nil with both objects published and Ready.
GitHubValidatesNothing_Witness ==
    /\ pc[KindGitHub] = "returned"
    /\ ret[KindGitHub] = RetNil
    /\ Len(actualUpstreams[KindGitHub]) = 2
    /\ Len(published[KindGitHub]) = 2
    /\ \A i \in 1..2 :
           lister[actualUpstreams[KindGitHub][i].Name].Status.Phase = PhaseReady

\* The names of the objects of the pass of kind k whose conditions are
\* valid, in the order of the list.
ValidNames(k) ==
    LET keep[i \in 0..Len(produced[k])] ==
            IF i = 0 THEN << >>
            ELSE IF isValid(produced[k][i])
                 THEN Append(keep[i - 1], actualUpstreams[k][i].Name)
                 ELSE keep[i - 1]
    IN  keep[Len(produced[k])]

\* C30: the published list a pass has written holds the providers that
\* pass listed and found valid, in list order, and nothing of what was
\* published before: a provider whose object was deleted before the pass,
\* or whose conditions the pass found invalid, is not in it.
PublishedIsRecomputed ==
    \A k \in Kinds :
        (pc[k] = "returned" /\ ret[k] # ErrListFailed) =>
            /\ NamesOf(published[k]) = ValidNames(k)
            /\ \A j \in 1..Len(published[k]) :
                   /\ published[k][j].Name \in DOMAIN lister
                   /\ \E i \in 1..Len(actualUpstreams[k]) :
                          /\ actualUpstreams[k][i].Name = published[k][j].Name
                          /\ isValid(produced[k][i])

\* A pass has returned after one provider that was published was deleted
\* and another that was published lost its secret, which the pass found:
\* neither is in the published list.
PublishedIsRecomputed_Witness ==
    \E k \in Kinds, n, m \in removed :
        /\ KindOf(n) = k /\ KindOf(m) = k
        /\ pc[k] = "returned"
        /\ ret[k] # ErrListFailed
        /\ n \notin DOMAIN lister
        /\ \E i \in 1..Len(actualUpstreams[k]) :
               /\ actualUpstreams[k][i].Name = m
               /\ ~isValid(produced[k][i])
        /\ ~IsPublished(n)
        /\ ~IsPublished(m)

(***************************************************************************)
(* Properties of validateIssuer and validateUpstream called directly.      *)
(***************************************************************************)
\* The call of validateIssuer missed the cache and discovery against the
\* issuer succeeded: the bundle and the issuer URL passed, the network was
\* up and the issuer served a document.
DiscoverySucceededIn(call) ==
    /\ ~call.cached
    /\ call.client.err = << >>
    /\ validateHTTPSURL(call.spec.Issuer, "issuer", reasonUnreachable) = NoCondition
    /\ call.netUp
    /\ DiscoveryDoc(call.spec.Issuer) # NoDoc

\* C31: validateIssuer stores a cache entry exactly in the calls in which
\* discovery against the issuer succeeded, with the TTL counted from the
\* call, and whether the endpoints then pass or fail with InvalidResponse;
\* in every other call (invalid CA bundle, rejected issuer URL, failed
\* discovery, cache hit) the cache is left as it was; a hit makes no
\* discovery request and leaves the expiry of the entry alone.
EntryStoredOnDiscoveryOnly ==
    ValidatedIssuer =>
        /\ lastCall.stored <=> DiscoverySucceededIn(lastCall)
        /\ lastCall.stored =>
               /\ lastCall.discoveryRequests = 1
               /\ lastCall.entryAfter.present
               /\ lastCall.entryAfter.provider = DiscoveryDoc(lastCall.spec.Issuer)
               /\ lastCall.entryAfter.expiry = lastCall.now + oidcValidatorCacheTTL
        /\ ~lastCall.stored => lastCall.entryAfter = lastCall.entryBefore
        /\ lastCall.cached =>
               /\ lastCall.discoveryRequests = 0
               /\ ~lastCall.stored
               /\ lastCall.entryAfter.expiry = lastCall.entryBefore.expiry
        /\ lastCall.condition.Reason \in { ReasonInvalidTLSConfig, reasonUnreachable } =>
               ~lastCall.stored

\* An entry was stored by a call whose condition is False/InvalidResponse.
EntryStoredOnDiscoveryOnly_Witness ==
    /\ ValidatedIssuer
    /\ lastCall.stored
    /\ lastCall.condition.Status = ConditionFalse
    /\ lastCall.condition.Reason = reasonInvalidResponse
    /\ lastCall.now > 0

\* validateHTTPSURL rejects the string: it does not parse, its scheme is
\* not https, or the parsed URL has query values or a fragment.
URLRejected(u) ==
    \/ ParseURL(u).err
    \/ ParseURL(u).Scheme # "https"
    \/ ParseURL(u).Query # {}
    \/ ParseURL(u).Fragment # ""

\* The provider the checks of the endpoints look at: the cached one on a
\* hit, the one the issuer serves on a miss.
ProviderChecked(call) ==
    IF call.cached THEN call.entryBefore.provider ELSE DiscoveryDoc(call.spec.Issuer)

\* The checks of validateIssuer in their order, each with whether it fails
\* for the call: CA bundle, issuer URL and discovery on a miss only, then
\* the revocation endpoint if there is one, the authorization endpoint and
\* the token endpoint.
IssuerChecks(call) ==
    << ~call.cached /\ call.client.err # << >>,
       ~call.cached /\ URLRejected(call.spec.Issuer),
       ~call.cached /\ (~call.netUp \/ DiscoveryDoc(call.spec.Issuer) = NoDoc),
       /\ ProviderChecked(call).RevocationEndpoint # ""
       /\ URLRejected(ProviderChecked(call).RevocationEndpoint),
       URLRejected(ProviderChecked(call).AuthURL),
       URLRejected(ProviderChecked(call).TokenURL) >>

\* The position of the first check that fails, 0 when none does.
FirstFailing(call) ==
    IF \E i \in 1..6 : IssuerChecks(call)[i]
    THEN CHOOSE i \in 1..6 :
             /\ IssuerChecks(call)[i]
             /\ \A j \in 1..(i - 1) : ~IssuerChecks(call)[j]
    ELSE 0

\* The condition is the one of the check at the position: its Reason, and
\* the part of its message that names the check.
ConditionOfCheck(call, i) ==
    /\ call.condition.Status = ConditionFalse
    /\ call.condition.Reason =
           << ReasonInvalidTLSConfig, reasonUnreachable, reasonUnreachable,
              reasonInvalidResponse, reasonInvalidResponse, reasonInvalidResponse >>[i]
    /\ CASE i = 1 -> call.condition.Message = call.client.err
         [] i = 3 -> call.condition.Message[1] = "failed to perform OIDC discovery against"
         [] OTHER -> call.condition.Message[2] =
                         << "", "issuer", "", "revocation endpoint",
                            "authorization endpoint", "token endpoint" >>[i]

\* The one condition validateIssuer returns is OIDCDiscoverySucceeded, with
\* the outcome of the first failing check, and True with Reason Success
\* when no check fails.
ConditionIsFirstFailure(call) ==
    /\ call.condition.Type = typeOIDCDiscoverySucceeded
    /\ IF FirstFailing(call) = 0
       THEN /\ call.condition.Status = ConditionTrue
            /\ call.condition.Reason = ReasonSuccess
       ELSE ConditionOfCheck(call, FirstFailing(call))

\* The endpoints and the client of the provider, as the result holds them
\* after a call in which no check failed.
EndpointsOf(call) ==
    [ AuthURL |-> ProviderChecked(call).AuthURL,
      TokenURL |-> ProviderChecked(call).TokenURL,
      RevocationURL |-> ProviderChecked(call).RevocationEndpoint,
      Client |-> IF call.cached THEN call.entryBefore.client ELSE call.client.rootCAs ]

NoEndpoints == [ AuthURL |-> "", TokenURL |-> "", RevocationURL |-> "", Client |-> "" ]

ThreeConditionsAlways ==
    ValidatedUpstream =>
        LET conditions == lastCall.conditions
        IN  /\ Len(conditions) = 3
            /\ TypesOf(conditions) =
                   { typeClientCredentialsSecretValid, typeOIDCDiscoverySucceeded,
                     typeAdditionalAuthorizeParametersValid }
            /\ \A i \in 1..3 :
                   conditions[i].Status \in { ConditionTrue, ConditionFalse }
            /\ ConditionOf(conditions, typeClientCredentialsSecretValid).Status
                   = ConditionFalse <=> lastCall.secret = SecretAbsent
            /\ ConditionOf(conditions, typeOIDCDiscoverySucceeded).Status
                   = ConditionFalse <=> ~lastCall.netUp
            /\ ConditionOf(conditions, typeAdditionalAuthorizeParametersValid).Status
                   = ConditionFalse <=>
                   Denylisted(lastCall.upstream.Spec.AdditionalAuthorizeParameters) # << >>
            /\ ~lastCall.valid <=>
                   \E i \in 1..3 : conditions[i].Status = ConditionFalse

\* All three checks failed in one call: three False conditions, no provider.
ThreeConditionsAlways_Witness ==
    /\ ValidatedUpstream
    /\ Len(lastCall.conditions) = 3
    /\ \A i \in 1..3 : lastCall.conditions[i].Status = ConditionFalse
    /\ ~lastCall.valid

(***************************************************************************)
(* Properties of the merge: the generation stamp and the frame.            *)
(***************************************************************************)

\* The positions of the incoming list that hold the Type.
IncomingOf(type) ==
    { q \in 1..Len(lastCall.conditions) : lastCall.conditions[q].Type = type }

\* The stored entry and the incoming condition differ in nothing but the
\* generation the merge stamps.
OnlyGenerationDiffers(old, new) ==
    /\ old.Type = new.Type
    /\ old.Status = new.Status
    /\ old.Reason = new.Reason
    /\ old.Message = new.Message
    /\ old.ObservedGeneration # lastCall.observedGeneration

\* C34: after a merge the entry of every incoming Type carries the
\* observedGeneration of the call (in a list of pairwise distinct Types, as
\* the merge keeps it, that is every condition of an incoming Type); and
\* when the stored entry of a Type handed in once differs from the incoming
\* condition in the generation only, the merge reports a change and leaves
\* the stored entry with the new generation and the stored
\* LastTransitionTime.
GenerationIsStamped ==
    Merged =>
        /\ \A type \in TypesOf(lastCall.conditions) :
               /\ FindOld(lastCall.result, type) # 0
               /\ lastCall.result[FindOld(lastCall.result, type)].ObservedGeneration
                      = lastCall.observedGeneration
        /\ DistinctTypes(lastCall.conditionsToUpdate) =>
               \A i \in 1..Len(lastCall.result) :
                   lastCall.result[i].Type \in TypesOf(lastCall.conditions)
                       => lastCall.result[i].ObservedGeneration
                              = lastCall.observedGeneration
        /\ \A p \in 1..Len(lastCall.conditions) :
               LET new == lastCall.conditions[p]
                   i == FindOld(lastCall.conditionsToUpdate, new.Type)
               IN  (/\ IncomingOf(new.Type) = { p }
                    /\ i # 0
                    /\ OnlyGenerationDiffers(lastCall.conditionsToUpdate[i], new))
                       => /\ lastCall.changed
                          /\ lastCall.result[FindOld(lastCall.result, new.Type)]
                                 = [ lastCall.conditionsToUpdate[i] EXCEPT
                                       !.ObservedGeneration = lastCall.observedGeneration ]

\* A merge for generation 2, later than the stored entry was written, of
\* the one condition that is stored for generation 1.
GenerationIsStamped_Witness ==
    /\ lastCall.op = "merged"
    /\ lastCall.now > 0
    /\ lastCall.observedGeneration = 2
    /\ Len(lastCall.conditionsToUpdate) = 1
    /\ Len(lastCall.conditions) = 1
    /\ OnlyGenerationDiffers(lastCall.conditionsToUpdate[1], lastCall.conditions[1])
    /\ lastCall.changed
    /\ lastCall.result[1].LastTransitionTime = 0
    /\ lastCall.result[1].ObservedGeneration = 2

\* The entries of a list that have the Type, in the order of the list.
EntriesOf(conds, type) ==
    LET HasType(c) == c.Type = type
    IN  SelectSeq(conds, HasType)

\* C35: the stored conditions of a Type that is not handed in are in the
\* merged list as they were stored, every field of them, and in their
\* stored order among themselves; the merged list holds nothing else of
\* such a Type.
StoredOfOtherTypesUnchanged ==
    Merged =>
        \A type \in MergeTypes \ TypesOf(lastCall.conditions) :
            EntriesOf(lastCall.result, type)
                = EntriesOf(lastCall.conditionsToUpdate, type)

\* A merge for generation 2, later than the stored entries were written,
\* that changes the entry of the Type handed in and moves the stored entry
\* of the other Type from the first place of the list to the second.
StoredOfOtherTypesUnchanged_Witness ==
    /\ lastCall.op = "merged"
    /\ lastCall.now > 0
    /\ lastCall.observedGeneration = 2
    /\ Len(lastCall.conditionsToUpdate) = 2
    /\ Len(lastCall.conditions) = 1
    /\ lastCall.conditions[1].Type = lastCall.conditionsToUpdate[2].Type
    /\ lastCall.conditions[1].Status # lastCall.conditionsToUpdate[2].Status
    /\ lastCall.conditionsToUpdate[1].Type # lastCall.conditions[1].Type
    /\ lastCall.result[2] = lastCall.conditionsToUpdate[1]
    /\ lastCall.result[1] # lastCall.conditionsToUpdate[2]

(***************************************************************************)
(* Properties of the passes: the Phase and the published set.              *)
(***************************************************************************)
\* The Phase that the pass of kind k computed for the i-th object it
\* listed, in its updateStatus.
PhaseComputed(k, i) ==
    mergedStatus(actualUpstreams[k][i], produced[k][i], clock).Phase

\* Whether a list of providers holds one of the name.
Holds(providers, n) == \E j \in 1..Len(providers) : providers[j].Name = n

\* C36: in an OIDC pass every object gone over is in the list the pass
\* builds exactly when the Phase the pass computed for it is Ready, and is
\* left out exactly when that Phase is Error; once the pass has returned
\* from the Set the same holds of the published set.
PublishedIffReady ==
    /\ \A i \in 1..(idx[KindOIDC] - 1) :
           LET n == actualUpstreams[KindOIDC][i].Name
               phase == PhaseComputed(KindOIDC, i)
               built == Holds(validatedUpstreams[KindOIDC], n)
           IN  /\ phase \in { PhaseReady, PhaseError }
               /\ built <=> phase = PhaseReady
               /\ ~built <=> phase = PhaseError
               /\ (pc[KindOIDC] = "returned" /\ ret[KindOIDC] # ErrListFailed) =>
                      (Holds(published[KindOIDC], n) <=> phase = PhaseReady)
    /\ Len(produced[KindOIDC]) = idx[KindOIDC] - 1
    /\ (pc[KindOIDC] = "returned" /\ ret[KindOIDC] # ErrListFailed) =>
           idx[KindOIDC] = Len(actualUpstreams[KindOIDC]) + 1

\* An OIDC pass has returned with one provider published, whose status
\* the informer shows as Ready, and the other left out, shown as Error with
\* a single condition of Status False.
PublishedIffReady_Witness ==
    /\ pc[KindOIDC] = "returned"
    /\ Len(actualUpstreams[KindOIDC]) = 2
    /\ Len(published[KindOIDC]) = 1
    /\ \E i, j \in 1..2 :
           LET a == actualUpstreams[KindOIDC][i].Name
               b == actualUpstreams[KindOIDC][j].Name
           IN  /\ Holds(published[KindOIDC], a)
               /\ lister[a].Status.Phase = PhaseReady
               /\ ~Holds(published[KindOIDC], b)
               /\ lister[b].Status.Phase = PhaseError
               /\ Cardinality({ c \in 1..Len(produced[KindOIDC][j]) :
                                  produced[KindOIDC][j][c].Status = ConditionFalse }) = 1

(***************************************************************************)
(* Properties of passes of both kinds that run side by side.               *)
(***************************************************************************)
\* The step belongs to the pass of kind k: it moves the pass on or starts
\* or ends it.
StepOf(k) ==
    \/ pc'[k] # pc[k]
    \/ idx'[k] # idx[k]

\* A step of a pass leaves the published set of the other kind as it is,
\* and what the pass lists, builds and returns is changed by its own steps
\* only.
PassWritesOwnKindOnly ==
    [][ \A k \in Kinds :
          /\ published'[k] # published[k] => (StepOf(k) /\ pc'[k] = "returned")
          /\ ~StepOf(k) =>
                 /\ actualUpstreams'[k] = actualUpstreams[k]
                 /\ validatedUpstreams'[k] = validatedUpstreams[k]
                 /\ produced'[k] = produced[k]
                 /\ requeue'[k] = requeue[k]
                 /\ ret'[k] = ret[k]
                 /\ completeSet'[k] = completeSet[k] ]_vars

\* The set published for a kind is the list that the last pass of that
\* kind to reach its Set built, and while the driver has not taken that
\* pass back it holds the providers the pass found valid, in list order.
PublishedIsOwnLatestPass ==
    \A k \in Kinds :
        /\ published[k] = completeSet[k]
        /\ (pc[k] = "returned" /\ ret[k] # ErrListFailed) =>
               /\ published[k] = validatedUpstreams[k]
               /\ NamesOf(published[k]) = ValidNames(k)
        /\ \A j \in 1..Len(published[k]) : KindOf(published[k][j].Name) = k

\* C37: with passes of both kinds interleaved in any way, a pass writes
\* the published set of its own kind only, at its Set, and the set
\* published for a kind is at every moment what the latest pass of that
\* kind to finish its loop computed, whatever the pass of the other kind
\* has done meanwhile.
KindsDoNotInterfere == []PublishedIsOwnLatestPass /\ PassWritesOwnKindOnly

\* The second passes of both kinds are inside their loops at once, each
\* past its first object, and the sets the first passes published are
\* both in place.
KindsDoNotInterfere_Witness ==
    /\ \A k \in Kinds :
           /\ pc[k] = "loop"
           /\ idx[k] > 1
           /\ passes[k] = 2
           /\ published[k] # << >>
    /\ Len(published[KindGitHub]) = 2

(***************************************************************************)
(* The GitHub provider of a FederationDomain: the login from the callback. *)
(***************************************************************************)
StatusBadGateway == 502
StatusUnprocessableEntity == 422

AuthCodes == { "authcode-1", "authcode-2" }
RedirectURIs == { "https://supervisor.example.com/callback" }
AccessTokens == { "token-a", "token-b" }
ExchangeFailed == "exchange failed"
\* GetUser returns no user and an error.
GetUserFailed ==
    [ Username |-> "", Groups |-> << >>, DownstreamSubject |-> "",
      err |-> "get user failed" ]

\* What GetUser returns of a user.
GitHubUsers ==
    { [ Username |-> "alice", Groups |-> << "org/team-a" >>,
        DownstreamSubject |-> "https://github.com?login=alice&id=1", err |-> "" ],
      [ Username |-> "bob", Groups |-> << >>,
        DownstreamSubject |-> "https://github.com?login=bob&id=2", err |-> "" ] }

\* p.Provider, the upstream GitHub provider, by what its two calls answer.
GitHubProviders ==
    [ Name : { "github-idp" },
      ExchangeAuthcode : [ AuthCodes -> AccessTokens \cup { ExchangeFailed } ],
      GetUser : [ AccessTokens -> GitHubUsers \cup { GetUserFailed } ] ]

NoIdentity == [ nil |-> TRUE ]
NoExtras == [ nil |-> TRUE ]
NoError == [ nil |-> TRUE ]

\* httperr.Wrap(code, msg, err)
HTTPError(code, cause) == [ nil |-> FALSE, code |-> code, cause |-> cause ]

\* The mutant asks for the user also when the exchange has failed.
LoginFromCallback_FetchAfterFailedExchange(p, displayName, authCode, redirectURI) ==
    LET accessToken == p.ExchangeAuthcode[authCode]
        exchange == [ call |-> "ExchangeAuthcode", authCode |-> authCode,
                      redirectURI |-> redirectURI ]
        token == IF accessToken = ExchangeFailed THEN "" ELSE accessToken
        getUser == [ call |-> "GetUser", accessToken |-> token,
                     idpDisplayName |-> displayName ]
        user == IF accessToken = ExchangeFailed THEN GetUserFailed
                ELSE p.GetUser[accessToken]
    IN  IF accessToken = ExchangeFailed
        THEN [ identity |-> NoIdentity, extras |-> NoExtras,
               err |-> HTTPError(StatusBadGateway, ExchangeFailed),
               calls |-> << exchange, getUser >> ]
        ELSE IF user = GetUserFailed
        THEN [ identity |-> NoIdentity, extras |-> NoExtras,
               err |-> HTTPError(StatusUnprocessableEntity, user.err),
               calls |-> << exchange, getUser >> ]
        ELSE [ identity |-> [ nil |-> FALSE,
                              UpstreamUsername |-> user.Username,
                              UpstreamGroups |-> user.Groups,
                              DownstreamSubject |-> user.DownstreamSubject,
                              IDPSpecificSessionData |->
                                  [ UpstreamAccessToken |-> accessToken ] ],
               extras |-> [ nil |-> FALSE, DownstreamAdditionalClaims |-> << >>,
                            Warnings |-> << >> ],
               err |-> NoError,
               calls |-> << exchange, getUser >> ]

\* LoginFromCallback: what it returns, and the calls it made of the
\* upstream provider, in order.
LoginFromCallback(p, displayName, authCode, redirectURI) ==
    LET accessToken == p.ExchangeAuthcode[authCode]
        exchange == [ call |-> "ExchangeAuthcode", authCode |-> authCode,
                      redirectURI |-> redirectURI ]
        getUser == [ call |-> "GetUser", accessToken |-> accessToken,
                     idpDisplayName |-> displayName ]
        user == p.GetUser[accessToken]
    IN  IF accessToken = ExchangeFailed
        THEN [ identity |-> NoIdentity, extras |-> NoExtras,
               err |-> HTTPError(StatusBadGateway, ExchangeFailed),
               calls |-> << exchange >> ]
        ELSE IF user = GetUserFailed
        THEN [ identity |-> NoIdentity, extras |-> NoExtras,
               err |-> HTTPError(StatusUnprocessableEntity, user.err),
               calls |-> << exchange, getUser >> ]
        ELSE [ identity |-> [ nil |-> FALSE,
                              UpstreamUsername |-> user.Username,
                              UpstreamGroups |-> user.Groups,
                              DownstreamSubject |-> user.DownstreamSubject,
                              IDPSpecificSessionData |->
                                  [ UpstreamAccessToken |-> accessToken ] ],
               extras |-> [ nil |-> FALSE, DownstreamAdditionalClaims |-> << >>,
                            Warnings |-> << >> ],
               err |-> NoError,
               calls |-> << exchange, getUser >> ]

\* The callback endpoint calls LoginFromCallback of a resolved provider
\* with the authcode and redirect URI of the request.
CallLoginFromCallback ==
    /\ lastCall = NoCall
    /\ \E p \in GitHubProviders, displayName \in { "my-github" },
          authCode \in AuthCodes, redirectURI \in RedirectURIs :
           LET r == LoginFromCallback(p, displayName, authCode, redirectURI)
           IN  lastCall' = [ op |-> "LoginFromCallback",
                             provider |-> p,
                             displayName |-> displayName,
                             authCode |-> authCode,
                             redirectURI |-> redirectURI,
                             identity |-> r.identity,
                             extras |-> r.extras,
                             err |-> r.err,
                             calls |-> r.calls ]
    /\ UNCHANGED << idleVars, clock, validatorCache, putLog >>

NextLogin == CallLoginFromCallback

SpecLogin == InitValidate /\ [][NextLogin]_vars

\* A call of LoginFromCallback has returned.
LoggedIn == lastCall.op = "LoginFromCallback"

\* C38: LoginFromCallback first exchanges the authcode of the request; when
\* the exchange fails it returns an error of HTTP status 502 and no
\* identity without having called GetUser; otherwise it calls GetUser with
\* the exchanged token, and returns an error of status 422 and no identity
\* when that fails, and else no error and the identity with the username,
\* groups and downstream subject of that user and the exchanged token as
\* session data.
LoginExchangesThenFetches ==
    LoggedIn =>
        LET accessToken == lastCall.provider.ExchangeAuthcode[lastCall.authCode]
            called == [ i \in 1..Len(lastCall.calls) |-> lastCall.calls[i].call ]
        IN  /\ lastCall.calls[1] = [ call |-> "ExchangeAuthcode",
                                     authCode |-> lastCall.authCode,
                                     redirectURI |-> lastCall.redirectURI ]
            /\ IF accessToken = ExchangeFailed
               THEN /\ called = << "ExchangeAuthcode" >>
                    /\ ~lastCall.err.nil
                    /\ lastCall.err.code = StatusBadGateway
                    /\ lastCall.identity = NoIdentity
               ELSE /\ called = << "ExchangeAuthcode", "GetUser" >>
                    /\ lastCall.calls[2].accessToken = accessToken
                    /\ IF lastCall.provider.GetUser[accessToken] = GetUserFailed
                       THEN /\ ~lastCall.err.nil
                            /\ lastCall.err.code = StatusUnprocessableEntity
                            /\ lastCall.identity = NoIdentity
                       ELSE LET user == lastCall.provider.GetUser[accessToken]
                            IN  /\ lastCall.err = NoError
                                /\ lastCall.identity.UpstreamUsername = user.Username
                                /\ lastCall.identity.UpstreamGroups = user.Groups
                                /\ lastCall.identity.DownstreamSubject
                                       = user.DownstreamSubject
                                /\ lastCall.identity.IDPSpecificSessionData
                                       = [ UpstreamAccessToken |-> accessToken ]

\* The exchange of the authcode of the request has failed at a provider
\* that would have exchanged the other authcode and has a user for every
\* token: the error is a 502 and GetUser was not called.
LoginExchangesThenFetches_Witness ==
    /\ LoggedIn
    /\ lastCall.provider.ExchangeAuthcode[lastCall.authCode] = ExchangeFailed
    /\ \E other \in AuthCodes :
           lastCall.provider.ExchangeAuthcode[other] # ExchangeFailed
    /\ \A t \in AccessTokens : lastCall.provider.GetUser[t] # GetUserFailed
    /\ lastCall.err.code = StatusBadGateway
    /\ Len(lastCall.calls) = 1

(***************************************************************************)
(* The audit log of the request parameters.                                *)
(***************************************************************************)
ParamKeys == { "code", "state" }

\* The values a request gives a parameter: one that unescapes to something
\* else, one that does not unescape, and one that unescapes to itself.
ParamValues == { "a%20b", "%zz", "s3cret" }

redacted == "redacted"

\* url.QueryUnescape: the value and whether it failed.
QueryUnescape(value) ==
    CASE value = "a%20b" -> [ unescape |-> "a b", err |-> FALSE ]
      [] value = "%zz"   -> [ unescape |-> "", err |-> TRUE ]
      [] OTHER           -> [ unescape |-> value, err |-> FALSE ]

\* The closure transform of sanitizeRequestParams.
transform(allowedKeys, key, value) ==
    IF key \notin allowedKeys THEN redacted
    ELSE LET u == QueryUnescape(value)
         IN  IF u.err THEN value ELSE u.unescape

\* url.Values as a parsed form holds them: some of the keys, each with its
\* values in order, at least one.
RequestParams ==
    UNION { [ keys -> { v \in SeqsUpTo(ParamValues, MaxValues) : v # << >> } ] :
              keys \in SUBSET ParamKeys }

\* The mutant redacts what goes to params and leaves multiValueParams as
\* the request gave them.
sanitizeRequestParams_RedactParamsOnly(inputParams, allowedKeys) ==
    LET params == [ key \in DOMAIN inputParams |->
                      transform(allowedKeys, key, inputParams[key][1]) ]
        multi == { key \in DOMAIN inputParams : Len(inputParams[key]) > 1 }
        multiValueParams == [ key \in multi |-> inputParams[key] ]
    IN  IF multi # {}
        THEN [ keys |-> << "params", "multiValueParams" >>,
               params |-> params, multiValueParams |-> multiValueParams ]
        ELSE [ keys |-> << "params" >>,
               params |-> params, multiValueParams |-> multiValueParams ]

\* sanitizeRequestParams: the keys of the list it returns and the two maps;
\* multiValueParams is in the list when it is not empty.
sanitizeRequestParams(inputParams, allowedKeys) ==
    LET params == [ key \in DOMAIN inputParams |->
                      transform(allowedKeys, key, inputParams[key][1]) ]
        multi == { key \in DOMAIN inputParams : Len(inputParams[key]) > 1 }
        multiValueParams ==
            [ key \in multi |->
                [ i \in 1..Len(inputParams[key]) |->
                    transform(allowedKeys, key, inputParams[key][i]) ] ]
    IN  IF multi # {}
        THEN [ keys |-> << "params", "multiValueParams" >>,
               params |-> params, multiValueParams |-> multiValueParams ]
        ELSE [ keys |-> << "params" >>,
               params |-> params, multiValueParams |-> multiValueParams ]

\* AuditRequestParams hands the parsed form of a request and the keys that
\* are safe to log to sanitizeRequestParams.
CallSanitizeRequestParams ==
    /\ lastCall = NoCall
    /\ \E inputParams \in RequestParams, allowedKeys \in SUBSET ParamKeys :
           lastCall' = [ op |-> "sanitizeRequestParams",
                         inputParams |-> inputParams,
                         allowedKeys |-> allowedKeys,
                         out |-> sanitizeRequestParams(inputParams, allowedKeys) ]
    /\ UNCHANGED << idleVars, clock, validatorCache, putLog >>

NextAudit == CallSanitizeRequestParams

SpecAudit == InitValidate /\ [][NextAudit]_vars

\* A call of sanitizeRequestParams has returned.
Sanitized == lastCall.op = "sanitizeRequestParams"

\* The other request has the keys of the one logged, as many values for
\* each, and the same values for the allowed keys.
DiffersInRedactedOnly(other) ==
    /\ DOMAIN other = DOMAIN lastCall.inputParams
    /\ \A key \in DOMAIN other :
           /\ Len(other[key]) = Len(lastCall.inputParams[key])
           /\ key \in lastCall.allowedKeys => other[key] = lastCall.inputParams[key]

\* C39: every value the output has for a key outside allowedKeys, in
\* params and in multiValueParams, is the literal "redacted", so that a
\* request that differs in the values of such keys only gives the same
\* output; params has every key of the request with what its first value
\* is logged as (for an allowed key the value unescaped, or as it is when
\* it does not unescape), and multiValueParams is in the output exactly
\* when some key has more than one value, with those keys and all their
\* values in order.
RedactionHidesValues ==
    Sanitized =>
        LET input == lastCall.inputParams
            out == lastCall.out
            Logged(value) == IF QueryUnescape(value).err THEN value
                             ELSE QueryUnescape(value).unescape
        IN  /\ DOMAIN out.params = DOMAIN input
            /\ \A key \in DOMAIN input :
                   out.params[key] = IF key \in lastCall.allowedKeys
                                     THEN Logged(input[key][1])
                                     ELSE redacted
            /\ DOMAIN out.multiValueParams
                   = { key \in DOMAIN input : Len(input[key]) > 1 }
            /\ \A key \in DOMAIN out.multiValueParams :
                   /\ Len(out.multiValueParams[key]) = Len(input[key])
                   /\ \A i \in 1..Len(input[key]) :
                          out.multiValueParams[key][i]
                              = IF key \in lastCall.allowedKeys
                                THEN Logged(input[key][i])
                                ELSE redacted
            /\ out.keys = IF \E key \in DOMAIN input : Len(input[key]) > 1
                          THEN << "params", "multiValueParams" >>
                          ELSE << "params" >>
            /\ \A other \in RequestParams :
                   DiffersInRedactedOnly(other) =>
                       sanitizeRequestParams(other, lastCall.allowedKeys) = out

\* A request with two values for a key that is not allowed, and one value,
\* which unescapes, for a key that is: the first is logged redacted twice
\* over, the second unescaped.
RedactionHidesValues_Witness ==
    /\ Sanitized
    /\ lastCall.allowedKeys = { "state" }
    /\ DOMAIN lastCall.inputParams = ParamKeys
    /\ lastCall.inputParams["code"] = << "s3cret", "a%20b" >>
    /\ lastCall.inputParams["state"] = << "a%20b" >>
    /\ lastCall.out.params["code"] = redacted
    /\ lastCall.out.params["state"] = "a b"
    /\ lastCall.out.multiValueParams["code"] = << redacted, redacted >>

=============================================================================
